---- MODULE Spec2Model ----
(***************************************************************************)
(* A model of the benchmarking harnesses of go-examples/go-pebble-db:      *)
(*                                                                         *)
(*   - WriteVisibilityTest (write_visibility test file): a sequential      *)
(*     writer that spawns one polling reader goroutine per written key.    *)
(*     Specification Spec (FairSpec adds the scheduler's fairness).        *)
(*   - PebblePerformanceTest (performance_test.go): the worker pool with   *)
(*     single-record and batch loops.  Specification SpecPerf.             *)
(*   - IndividualWriteTest (individual_write_test.go): the write-only      *)
(*     worker pool.  Specification SpecInd.                                *)
(*   - TestPebbleIndividualWrites (individual_write_test.go): a subtest    *)
(*     from construction over preload and the write, read or mixed run to  *)
(*     the deferred Cleanup.  Specification SpecTest; SpecPool is SpecTest *)
(*     together with SpecPerf.                                             *)
(*   - generateKeyValue of the worker-pool harnesses on its own, for small *)
(*     key sizes.  Specification SpecCodec.                                *)
(*   - scanHandler of the HTTP server over pebble (GET /scan).             *)
(*     Specification SpecScan.                                             *)
(*   - AnalyzeResults of WriteVisibilityTest on its own, over latencies at *)
(*     the bucket boundaries.  Specification SpecAnalyze.                  *)
(*   - insertItemsIndividually (individual_write_test.go): the goroutines  *)
(*     of the insert benchmark.  Specification SpecInsert.                 *)
(*                                                                         *)
(* The storage engine (pebble) is external: it is modelled by what its     *)
(* calls return to the harness (success, ErrNotFound, another error).      *)
(***************************************************************************)
EXTENDS Integers, Sequences, FiniteSets, TLC

(***************************************************************************)
(* Bounds of the model.                                                    *)
(***************************************************************************)
\* largest writeCount of a visibility run
MaxWrites == 2
\* largest readAttempts of a visibility run
MaxAttempts == 2
\* the clock stops advancing at MaxTime
MaxTime == 2
\* the largest number of db.Get calls of a run that fail with an engine fault
MaxFaults == 1
\* largest numOperations of a worker-pool run
MaxOps == 4
\* largest numWorkers of a worker-pool run
MaxWorkers == 2
\* largest batchSize of a PebblePerformanceTest
MaxBatch == 2
\* largest keySize of an encoding that is checked on its own
MaxKeySize == 2
\* largest index of an encoding that is checked on its own
MaxIdx == 12
\* largest number of records in the store a scan runs over
MaxStore == 3
\* largest number of latency slots AnalyzeResults is run over on its own
MaxSlots == 3
\* largest first index of a block of 100 indices whose reads are counted
MaxBlockStart == 100
\* largest numItems of insertItemsIndividually
MaxItems == 4
\* largest numWorkers of insertItemsIndividually
MaxInsertWorkers == 3

(***************************************************************************)
(* State of a WriteVisibilityTest and of the test function that runs it.   *)
(***************************************************************************)
VARIABLES
    syncWrites,     \* t.syncWrites
    writeCount,     \* t.writeCount
    readAttempts,   \* t.readAttempts
    stats,          \* t.stats: writeOps, readOps, readMisses, readLatencies
    writeTimes,     \* Run's local slice writeTimes
    runPc,          \* position of Run: "loop", "set", "spawn", "returned"
    runI,           \* Run's loop variable i
    runErr,         \* what Run returned: "none" (still running), "nil", "err"
    wg,             \* counter of Run's sync.WaitGroup
    rd,             \* the checkReadVisibility goroutines, by idx
    logged,         \* number of read-error lines printed, by idx
    testPc,         \* position of TestPebbleWriteVisibility's subtest
    db,             \* the store: key -> value readable by Get
    dbPending,      \* writes the store accepted that are not yet readable
    dbClosed,       \* db.Close() was called
    crashed,        \* the process panicked
    storeImmediate, \* the store makes a key readable before Set returns
    now,            \* the clock (monotonic reading of time.Now)
    slotWrites      \* history: by slot of readLatencies, the idx of each
                    \* goroutine that stored into it, in order

(***************************************************************************)
(* State of a worker-pool harness (PebblePerformanceTest or                *)
(* IndividualWriteTest) and of its Run.                                    *)
(***************************************************************************)
VARIABLES
    harness,        \* which harness runs: "vis", "perf" or "ind"
    numOperations,  \* numOperations
    numWorkers,     \* numWorkers
    batchSize,      \* p.batchSize
    readRatio,      \* p.readRatio, in hundredths
    poolStats,      \* stats: readOps, writeOps, errors
    poolDb,         \* the store: key -> value
    poolPc,         \* position of Run: "spawn", "wait", "returned"
    spawnW,         \* Run's loop variable w
    poolWg,         \* counter of Run's sync.WaitGroup
    wk,             \* the worker goroutines, by workerID
    opLog,          \* history: the operations each worker has issued, in order
    testType,       \* cfg.testType of the subtest: "write", "read", "mixed"
    preloadCount,   \* the count passed to preloadData
    preloadI,       \* preloadData's loop variable i
    poolTestPc,     \* position of the subtest that owns the harness
    tempDir,        \* the temporary directory: "none", "exists", "removed"
    poolHandle      \* the store handle: "none", "open", "closed"

\* the subtest around a worker-pool run
lifeVars == <<testType, preloadCount, preloadI, poolTestPc, tempDir, poolHandle>>

(***************************************************************************)
(* State of the callers of the sequential functions that are checked on    *)
(* their own: generateKeyValue, scanHandler and AnalyzeResults; and of     *)
(* insertItemsIndividually.                                                *)
(***************************************************************************)
VARIABLES
    codecKeySize,   \* keySize of the harness that encodes
    codecValueSize, \* valueSize of the harness that encodes
    codecIdx,       \* the two indices that are encoded
    codecOut,       \* what generateKeyValue returned for them
    scanStore,      \* the server's store: key -> value
    scanPrefix,     \* the request's prefix parameter
    scanPc,         \* position of scanHandler
    scanIter,       \* position of the iterator in the store's sorted keys
    scanResults,    \* scanHandler's map results
    an,             \* the locals of AnalyzeResults
    ins             \* insertItemsIndividually: its arguments, goroutines and store

seqVars == <<codecKeySize, codecValueSize, codecIdx, codecOut, scanStore,
             scanPrefix, scanPc, scanIter, scanResults, an, ins>>

poolVars == <<numOperations, numWorkers, batchSize, readRatio, poolStats, poolDb,
              poolPc, spawnW, poolWg, wk, opLog, lifeVars>>

visVars == <<syncWrites, writeCount, readAttempts, stats, writeTimes, runPc, runI,
             runErr, wg, rd, logged, testPc, db, dbPending, dbClosed, crashed,
             storeImmediate, now, slotWrites>>

vars == <<harness, visVars, poolVars, seqVars>>

\* no encoding is checked on its own
CodecIdle ==
    /\ codecKeySize = 0
    /\ codecValueSize = 0
    /\ codecIdx = <<>>
    /\ codecOut = <<>>

\* no scan request is served
ScanIdle ==
    /\ scanStore = <<>>
    /\ scanPrefix = <<>>
    /\ scanPc = "none"
    /\ scanIter = 0
    /\ scanResults = <<>>

\* AnalyzeResults is not running on its own
AnalyzeIdle == an = <<>>

\* insertItemsIndividually is not running
InsertIdle == ins = <<>>

\* nothing is encoded, scanned, analyzed or inserted
SeqIdle == CodecIdle /\ ScanIdle /\ AnalyzeIdle /\ InsertIdle

\* the zero value of time.Time, what make([]time.Time, n) holds
ZeroTime == 0

\* t.keyPrefix as set by NewWriteVisibilityTest
keyPrefix == "test-key-"

\* the miss sentinel written to a latency slot
MissSentinel == -1

Indices == 0 .. (MaxWrites - 1)

\* the key generateKeyValue builds for idx: keyPrefix followed by idx
generateKey(idx) == <<keyPrefix, idx>>

\* the value generateKeyValue builds for idx at clock reading t: "v-<idx>-<t>"
generateValue(idx, t) == <<"v-", idx, t>>

\* a reader that looks its key up under another prefix than the writer's
readerKeyOtherPrefix(idx) == <<"key-", idx>>

\* the key checkReadVisibility builds for idx
readerKey(idx) == <<keyPrefix, idx>>

\* the subtraction of time.Since with its operands exchanged
SinceReversed(t) == t - now

\* time.Since(t) at the current clock reading
Since(t) == now - t

\* a store in which a write replaces the value of every record
StorePutClobbers(m, k, v) == [x \in (DOMAIN m) \cup {k} |-> v]

\* db.Set made readable: the map with key k bound to v
StorePut(m, k, v) == [x \in (DOMAIN m) \cup {k} |-> IF x = k THEN v ELSE m[x]]

\* whether db.Get(k) finds the key
StoreHas(k) == k \in DOMAIN db

RECURSIVE SumTo(_, _)
\* f[0] + ... + f[n-1]
SumTo(f, n) == IF n = 0 THEN 0 ELSE f[n - 1] + SumTo(f, n - 1)

\* a reader that has not been spawned; slept counts its time.Sleep calls
IdleReader == [pc |-> "idle", i |-> 0, found |-> FALSE, readLatency |-> 0,
               writeTime |-> ZeroTime, slept |-> 0]

(***************************************************************************)
(* NewWriteVisibilityTest: the state after construction, for every         *)
(* configuration within the bounds.                                        *)
(***************************************************************************)
\* no worker-pool harness exists
PoolIdle ==
    /\ numOperations = 0
    /\ numWorkers = 0
    /\ batchSize = 0
    /\ readRatio = 0
    /\ poolStats = [readOps |-> 0, writeOps |-> 0, errors |-> 0]
    /\ poolDb = <<>>
    /\ poolPc = "none"
    /\ spawnW = 0
    /\ poolWg = 0
    /\ wk = <<>>
    /\ opLog = <<>>
    /\ testType = "none"
    /\ preloadCount = 0
    /\ preloadI = 0
    /\ poolTestPc = "none"
    /\ tempDir = "none"
    /\ poolHandle = "none"

InitVis ==
    /\ harness = "vis"
    /\ SeqIdle
    /\ PoolIdle
    /\ syncWrites \in BOOLEAN
    /\ writeCount \in 0 .. MaxWrites
    /\ readAttempts \in 0 .. MaxAttempts
    /\ stats = [writeOps |-> 0, readOps |-> 0, readMisses |-> 0,
                readLatencies |-> [k \in 0 .. (writeCount - 1) |-> 0]]
    /\ writeTimes = [k \in 0 .. (writeCount - 1) |-> ZeroTime]
    /\ runPc = "loop"
    /\ runI = 0
    /\ runErr = "none"
    /\ wg = 0
    /\ rd = [k \in 0 .. (writeCount - 1) |-> IdleReader]
    /\ logged = [k \in 0 .. (writeCount - 1) |-> 0]
    /\ testPc = "run"
    /\ db = <<>>
    /\ dbPending = <<>>
    /\ dbClosed = FALSE
    /\ crashed = FALSE
    /\ storeImmediate \in BOOLEAN
    /\ now = 1
    /\ slotWrites = [k \in 0 .. (writeCount - 1) |-> <<>>]

cfgVars == <<harness, poolVars, seqVars, syncWrites, writeCount, readAttempts,
            storeImmediate>>

(***************************************************************************)
(* Run, lines 161-188.                                                     *)
(***************************************************************************)
\* writeKey issuing db.Set without having stamped the write time
RunWriteStampMissing ==
    /\ ~crashed /\ runPc = "loop" /\ runI < writeCount
    /\ runPc' = "set"
    /\ UNCHANGED <<cfgVars, slotWrites, stats, writeTimes, runI, runErr, wg, rd, logged, testPc,
                   db, dbPending, dbClosed, crashed, now>>

\* writeKey up to the db.Set call: the value is generated (with the clock reading
\* of this step), the write time is stamped, and the call is issued.
RunWriteStamp ==
    /\ ~crashed /\ runPc = "loop" /\ runI < writeCount
    /\ writeTimes' = [writeTimes EXCEPT ![runI] = now]
    /\ runPc' = "set"
    /\ UNCHANGED <<cfgVars, slotWrites, stats, runI, runErr, wg, rd, logged, testPc, db,
                   dbPending, dbClosed, crashed, now>>

\* db.Set returns nil: the store holds the record (readable at once, or only
\* accepted), writeOps is incremented and writeKey returns nil.  The value is the
\* one generateKeyValue built when writeKey started.
RunSetOk ==
    /\ ~crashed /\ runPc = "set"
    /\ stats' = [stats EXCEPT !.writeOps = @ + 1]
    /\ IF storeImmediate
         THEN /\ db' = StorePut(db, generateKey(runI),
                                generateValue(runI, writeTimes[runI]))
              /\ UNCHANGED dbPending
         ELSE /\ dbPending' = StorePut(dbPending, generateKey(runI),
                                       generateValue(runI, writeTimes[runI]))
              /\ UNCHANGED db
    /\ runPc' = "spawn"
    /\ UNCHANGED <<cfgVars, slotWrites, writeTimes, runI, runErr, wg, rd, logged, testPc,
                   dbClosed, crashed, now>>

\* a Run that ignores the error of db.Set and goes on to spawn the reader
RunSetErrSpawns ==
    /\ ~crashed /\ runPc = "set"
    /\ runPc' = "spawn"
    /\ UNCHANGED <<cfgVars, slotWrites, stats, writeTimes, runI, runErr, wg, rd, logged,
                   testPc, db, dbPending, dbClosed, crashed, now>>

\* db.Set returns an error: writeKey returns it and Run returns at once.
RunSetErr ==
    /\ ~crashed /\ runPc = "set"
    /\ runPc' = "returned"
    /\ runErr' = "err"
    /\ testPc' = "cleanup"
    /\ UNCHANGED <<cfgVars, slotWrites, stats, writeTimes, runI, wg, rd, logged, db,
                   dbPending, dbClosed, crashed, now>>

\* wg.Add(1); go t.checkReadVisibility(i, writeTimes[i], &wg); then the loop's i++.
RunSpawn ==
    /\ ~crashed /\ runPc = "spawn"
    /\ wg' = wg + 1
    /\ rd' = [rd EXCEPT ![runI] = [pc |-> "loop", i |-> 0, found |-> FALSE,
                                   readLatency |-> 0, writeTime |-> writeTimes[runI],
                                   slept |-> 0]]
    /\ runI' = runI + 1
    /\ runPc' = "loop"
    /\ UNCHANGED <<cfgVars, slotWrites, stats, writeTimes, runErr, logged, testPc, db,
                   dbPending, dbClosed, crashed, now>>

\* The loop has ended; wg.Wait() returns once the counter is zero and Run
\* returns nil.
RunReturn ==
    /\ ~crashed /\ runPc = "loop" /\ runI >= writeCount /\ wg = 0
    /\ runPc' = "returned"
    /\ runErr' = "nil"
    /\ testPc' = "analyze"
    /\ UNCHANGED <<cfgVars, slotWrites, stats, writeTimes, runI, wg, rd, logged, db,
                   dbPending, dbClosed, crashed, now>>

(***************************************************************************)
(* checkReadVisibility(idx, writeTime, wg), lines 122-158.                 *)
(***************************************************************************)
\* a reader that stores its latency in slot 0 whatever its idx
ReaderPollFoundSlotZero(idx) ==
    /\ ~crashed /\ ~dbClosed
    /\ rd[idx].pc = "loop" /\ rd[idx].i < readAttempts
    /\ StoreHas(readerKey(idx))
    /\ rd' = [rd EXCEPT ![idx] = [@ EXCEPT !.readLatency = Since(rd[idx].writeTime),
                                           !.found = TRUE,
                                           !.pc = "done"]]
    /\ stats' = [stats EXCEPT !.readOps = @ + 1,
                              !.readLatencies[0] = Since(rd[idx].writeTime)]
    /\ slotWrites' = [slotWrites EXCEPT ![0] = Append(@, idx)]
    /\ wg' = wg - 1
    /\ UNCHANGED <<cfgVars, writeTimes, runPc, runI, runErr, logged, testPc,
                   db, dbPending, dbClosed, crashed, now>>

\* a reader that sleeps one interval after its successful Get as well
ReaderPollFoundSleeps(idx) ==
    /\ ~crashed /\ ~dbClosed
    /\ rd[idx].pc = "loop" /\ rd[idx].i < readAttempts
    /\ StoreHas(readerKey(idx))
    /\ rd' = [rd EXCEPT ![idx] = [@ EXCEPT !.readLatency = Since(rd[idx].writeTime),
                                           !.found = TRUE,
                                           !.slept = @ + 1,
                                           !.pc = "done"]]
    /\ stats' = [stats EXCEPT !.readOps = @ + 1,
                              !.readLatencies[idx] = Since(rd[idx].writeTime)]
    /\ slotWrites' = [slotWrites EXCEPT ![idx] = Append(@, idx)]
    /\ wg' = wg - 1
    /\ UNCHANGED <<cfgVars, writeTimes, runPc, runI, runErr, logged, testPc,
                   db, dbPending, dbClosed, crashed, now>>

\* A pass of the poll loop whose db.Get finds the key: the latency is taken,
\* readOps is incremented and the loop is left by break; found is true, so the
\* latency is stored in slot idx, the deferred wg.Done() runs and the goroutine
\* ends.
ReaderPollFound(idx) ==
    /\ ~crashed /\ ~dbClosed
    /\ rd[idx].pc = "loop" /\ rd[idx].i < readAttempts
    /\ StoreHas(readerKey(idx))
    /\ rd' = [rd EXCEPT ![idx] = [@ EXCEPT !.readLatency = Since(rd[idx].writeTime),
                                           !.found = TRUE,
                                           !.pc = "done"]]
    /\ stats' = [stats EXCEPT !.readOps = @ + 1,
                              !.readLatencies[idx] = Since(rd[idx].writeTime)]
    /\ slotWrites' = [slotWrites EXCEPT ![idx] = Append(@, idx)]
    /\ wg' = wg - 1
    /\ UNCHANGED <<cfgVars, writeTimes, runPc, runI, runErr, logged, testPc,
                   db, dbPending, dbClosed, crashed, now>>

\* a not-found pass that retries without counting the attempt
ReaderPollNotFoundNoCount(idx) ==
    /\ ~crashed /\ ~dbClosed
    /\ rd[idx].pc = "loop" /\ rd[idx].i < readAttempts
    /\ ~StoreHas(readerKey(idx))
    /\ UNCHANGED vars

\* A pass whose db.Get returns pebble.ErrNotFound: time.Sleep, then i++.
ReaderPollNotFound(idx) ==
    /\ ~crashed /\ ~dbClosed
    /\ rd[idx].pc = "loop" /\ rd[idx].i < readAttempts
    /\ ~StoreHas(readerKey(idx))
    /\ rd' = [rd EXCEPT ![idx] = [@ EXCEPT !.slept = @ + 1, !.i = @ + 1]]
    /\ UNCHANGED <<cfgVars, slotWrites, stats, writeTimes, runPc, runI, runErr, wg, logged,
                   testPc, db, dbPending, dbClosed, crashed, now>>

\* an error pass that prints the error and retries without counting the attempt
ReaderPollErrorNoCount(idx) ==
    /\ ~crashed /\ SumTo(logged, writeCount) < MaxFaults
    /\ rd[idx].pc = "loop" /\ rd[idx].i < readAttempts
    /\ logged' = [logged EXCEPT ![idx] = @ + 1]
    /\ UNCHANGED <<cfgVars, slotWrites, stats, writeTimes, runPc, runI, runErr, wg, rd, testPc,
                   db, dbPending, dbClosed, crashed, now>>

\* A pass whose db.Get returns another error (an engine fault, or the error of
\* a closed handle): the error is printed, then time.Sleep and i++.
ReaderPollError(idx) ==
    /\ ~crashed /\ SumTo(logged, writeCount) < MaxFaults
    /\ rd[idx].pc = "loop" /\ rd[idx].i < readAttempts
    /\ logged' = [logged EXCEPT ![idx] = @ + 1]
    /\ rd' = [rd EXCEPT ![idx] = [@ EXCEPT !.slept = @ + 1, !.i = @ + 1]]
    /\ UNCHANGED <<cfgVars, slotWrites, stats, writeTimes, runPc, runI, runErr, wg, testPc,
                   db, dbPending, dbClosed, crashed, now>>

\* db.Get on a handle that Cleanup has closed may panic instead: the process dies.
ReaderPollClosed(idx) ==
    /\ ~crashed /\ dbClosed
    /\ rd[idx].pc = "loop" /\ rd[idx].i < readAttempts
    /\ crashed' = TRUE
    /\ UNCHANGED <<cfgVars, slotWrites, stats, writeTimes, runPc, runI, runErr, wg, rd, logged,
                   testPc, db, dbPending, dbClosed, now>>

\* the end of a reader that stores the sentinel but does not count the miss
ReaderMissNoCount(idx) ==
    /\ ~crashed
    /\ rd[idx].pc = "loop" /\ ~(rd[idx].i < readAttempts)
    /\ stats' = [stats EXCEPT !.readLatencies[idx] = MissSentinel]
    /\ slotWrites' = [slotWrites EXCEPT ![idx] = Append(@, idx)]
    /\ rd' = [rd EXCEPT ![idx] = [@ EXCEPT !.pc = "done"]]
    /\ wg' = wg - 1
    /\ UNCHANGED <<cfgVars, writeTimes, runPc, runI, runErr, logged, testPc, db,
                   dbPending, dbClosed, crashed, now>>

\* the end of a reader that counts the miss but leaves its slot as it is
ReaderMissLeavesSlot(idx) ==
    /\ ~crashed
    /\ rd[idx].pc = "loop" /\ ~(rd[idx].i < readAttempts)
    /\ stats' = [stats EXCEPT !.readMisses = @ + 1]
    /\ rd' = [rd EXCEPT ![idx] = [@ EXCEPT !.pc = "done"]]
    /\ wg' = wg - 1
    /\ UNCHANGED <<cfgVars, slotWrites, writeTimes, runPc, runI, runErr, logged, testPc,
                   db, dbPending, dbClosed, crashed, now>>

\* The loop ends with i = t.readAttempts and found false: readMisses is
\* incremented, the sentinel is stored in slot idx, the deferred wg.Done() runs
\* and the goroutine ends.
ReaderMiss(idx) ==
    /\ ~crashed
    /\ rd[idx].pc = "loop" /\ ~(rd[idx].i < readAttempts)
    /\ stats' = [stats EXCEPT !.readMisses = @ + 1,
                              !.readLatencies[idx] = MissSentinel]
    /\ slotWrites' = [slotWrites EXCEPT ![idx] = Append(@, idx)]
    /\ rd' = [rd EXCEPT ![idx] = [@ EXCEPT !.pc = "done"]]
    /\ wg' = wg - 1
    /\ UNCHANGED <<cfgVars, writeTimes, runPc, runI, runErr, logged, testPc, db,
                   dbPending, dbClosed, crashed, now>>

Reader(idx) ==
    \/ ReaderPollFound(idx)
    \/ ReaderPollNotFound(idx)
    \/ ReaderPollError(idx)
    \/ ReaderPollClosed(idx)
    \/ ReaderMiss(idx)

(***************************************************************************)
(* TestPebbleWriteVisibility's subtest after Run, lines 296-304.           *)
(***************************************************************************)
\* test.AnalyzeResults() after Run returned nil; it only reads the stats.
TestAnalyze ==
    /\ ~crashed /\ testPc = "analyze"
    /\ testPc' = "cleanup"
    /\ UNCHANGED <<cfgVars, slotWrites, stats, writeTimes, runPc, runI, runErr, wg, rd, logged,
                   db, dbPending, dbClosed, crashed, now>>

\* the deferred test.Cleanup(), lines 78-85: t.db.Close()
Cleanup ==
    /\ ~crashed /\ testPc = "cleanup"
    /\ dbClosed' = TRUE
    /\ testPc' = "end"
    /\ UNCHANGED <<cfgVars, slotWrites, stats, writeTimes, runPc, runI, runErr, wg, rd, logged,
                   db, dbPending, crashed, now>>

(***************************************************************************)
(* The environment: the clock and the store's background work.             *)
(***************************************************************************)
\* time passes
Tick ==
    /\ ~crashed /\ now < MaxTime
    /\ now' = now + 1
    /\ UNCHANGED <<cfgVars, slotWrites, stats, writeTimes, runPc, runI, runErr, wg, rd, logged,
                   testPc, db, dbPending, dbClosed, crashed>>

\* the store makes an accepted write readable
StoreApply ==
    /\ ~crashed /\ ~dbClosed
    /\ \E k \in DOMAIN dbPending :
         /\ k \notin DOMAIN db
         /\ db' = StorePut(db, k, dbPending[k])
    /\ UNCHANGED <<cfgVars, slotWrites, stats, writeTimes, runPc, runI, runErr, wg, rd, logged,
                   testPc, dbPending, dbClosed, crashed, now>>

RunStep ==
    \/ RunWriteStamp
    \/ RunSetOk
    \/ RunSetErr
    \/ RunSpawn
    \/ RunReturn

TestStep ==
    \/ TestAnalyze
    \/ Cleanup

\* the steps of the reader goroutines, each for some spawned reader
SomeReaderPollFound == \E idx \in DOMAIN rd : ReaderPollFound(idx)
SomeReaderPollNotFound == \E idx \in DOMAIN rd : ReaderPollNotFound(idx)
SomeReaderPollError == \E idx \in DOMAIN rd : ReaderPollError(idx)
SomeReaderPollClosed == \E idx \in DOMAIN rd : ReaderPollClosed(idx)
SomeReaderMiss == \E idx \in DOMAIN rd : ReaderMiss(idx)

Next ==
    \/ RunWriteStamp
    \/ RunSetOk
    \/ RunSetErr
    \/ RunSpawn
    \/ RunReturn
    \/ TestAnalyze
    \/ Cleanup
    \/ SomeReaderPollFound
    \/ SomeReaderPollNotFound
    \/ SomeReaderPollError
    \/ SomeReaderPollClosed
    \/ SomeReaderMiss
    \/ Tick
    \/ StoreApply

Spec == InitVis /\ [][Next]_vars

\* The Go scheduler runs every runnable goroutine: the main goroutine and each
\* reader take their next step when one is enabled.  Nothing is assumed of the
\* clock or of the store's background work.
FairSpec ==
    /\ Spec
    /\ WF_vars(RunStep)
    /\ WF_vars(TestStep)
    /\ \A idx \in Indices : WF_vars(idx \in DOMAIN rd /\ Reader(idx))

(***************************************************************************)
(* The worker-pool harnesses.                                              *)
(***************************************************************************)
\* no WriteVisibilityTest exists
VisIdle ==
    /\ writeCount = 0
    /\ readAttempts = 0
    /\ stats = [writeOps |-> 0, readOps |-> 0, readMisses |-> 0,
                readLatencies |-> <<>>]
    /\ writeTimes = <<>>
    /\ runPc = "none"
    /\ runI = 0
    /\ runErr = "none"
    /\ wg = 0
    /\ rd = <<>>
    /\ logged = <<>>
    /\ testPc = "none"
    /\ db = <<>>
    /\ dbPending = <<>>
    /\ dbClosed = FALSE
    /\ crashed = FALSE
    /\ storeImmediate = TRUE
    /\ now = 1
    /\ slotWrites = <<>>

\* keySize and valueSize of the test configurations
keySize == 16
valueSize == 100

DigitChars == <<"0", "1", "2", "3", "4", "5", "6", "7", "8", "9">>

RECURSIVE Decimal(_)
\* the decimal representation of n >= 0, as fmt's %d prints it
Decimal(n) ==
    IF n < 10 THEN <<DigitChars[n + 1]>>
    ELSE Append(Decimal(n \div 10), DigitChars[(n % 10) + 1])

\* fmt.Sprintf("%0*d", width, n): left-padded with zeros to at least width
ZeroPadded(width, n) ==
    LET d == Decimal(n)
    IN  IF Len(d) >= width THEN d
        ELSE [k \in 1 .. (width - Len(d)) |-> "0"] \o d

\* a copy that leaves the last byte of the destination zero
CopyIntoOneShort(size, str) ==
    [k \in 1 .. size |-> IF k <= Len(str) /\ k < size THEN str[k] ELSE "\\0"]

\* copy(dst, str) into a fresh make([]byte, size): the first size bytes of str,
\* the rest left zero
CopyInto(size, str) ==
    [k \in 1 .. size |-> IF k <= Len(str) THEN str[k] ELSE "\\0"]

\* generateKeyValue(idx) of a harness whose keySize is ks and valueSize is vs
generateKeyValueOf(ks, vs, idx) ==
    [key   |-> CopyInto(ks, ZeroPadded(ks, idx)),
     value |-> CopyInto(vs, <<"v", "-">> \o ZeroPadded(vs - 2, idx))]

\* generateKeyValue(idx) of PebblePerformanceTest and IndividualWriteTest with
\* the sizes of the test configurations
generateKeyValue(idx) == generateKeyValueOf(keySize, valueSize, idx)

Workers == 0 .. (numWorkers - 1)

\* Run's division by the next larger quotient
opsPerWorkerRoundedUp == (numOperations + numWorkers - 1) \div numWorkers

\* opsPerWorker := numOperations / numWorkers
opsPerWorker == numOperations \div numWorkers

\* every worker starting at index 0
startIdxZero(w) == 0

\* startIdx := workerID * opsPerWorker
startIdx(w) == w * opsPerWorker

\* a partition that ends one index early
endIdxOneShort(w) == startIdx(w) + opsPerWorker - 1

\* endIdx := startIdx + opsPerWorker
endIdx(w) == startIdx(w) + opsPerWorker

\* a batch end that is never clipped to the end of the partition
MinUnclipped(a, b) == a

Min(a, b) == IF a < b THEN a ELSE b

\* the record opLog keeps of one operation: op over the indices from .. to - 1
\* ended with res; a batch that failed while staging failed at index at
LogEntry(op, from, to, res, at) ==
    [op |-> op, from |-> from, to |-> to, res |-> res, at |-> at]

Logged(w, e) == [opLog EXCEPT ![w] = Append(@, e)]

\* the map m with the records of the indices from .. to - 1 written
RECURSIVE PutRange(_, _, _)
PutRange(m, from, to) ==
    IF from >= to THEN m
    ELSE PutRange(StorePut(m, generateKeyValue(from).key, generateKeyValue(from).value),
                  from + 1, to)

poolCfg == <<harness, visVars, seqVars, numOperations, numWorkers, batchSize,
             readRatio, testType, preloadCount>>

\* the subtest's own state, which the goroutines of a run never touch
testVars == <<preloadI, poolTestPc, tempDir, poolHandle>>

(***************************************************************************)
(* Run and its WaitGroup: PebblePerformanceTest.Run, RunWriteTest.         *)
(***************************************************************************)
\* wg.Add(1); go worker(w, &wg, opsPerWorker)
PoolSpawn ==
    /\ poolPc = "spawn" /\ spawnW < numWorkers
    /\ poolWg' = poolWg + 1
    /\ wk' = [wk EXCEPT ![spawnW] = [pc |-> "run", i |-> startIdx(spawnW)]]
    /\ spawnW' = spawnW + 1
    /\ UNCHANGED <<poolCfg, testVars, poolStats, poolDb, poolPc, opLog>>

\* a run entry point that returns after its spawn loop without wg.Wait()
PoolReturnWithoutWait ==
    /\ poolPc = "spawn" /\ spawnW >= numWorkers
    /\ poolPc' = "returned"
    /\ UNCHANGED <<poolCfg, testVars, poolStats, poolDb, spawnW, poolWg, wk, opLog>>

\* the spawn loop has ended; wg.Wait() returns once the counter is zero
PoolReturn ==
    /\ poolPc = "spawn" /\ spawnW >= numWorkers /\ poolWg = 0
    /\ poolPc' = "returned"
    /\ UNCHANGED <<poolCfg, testVars, poolStats, poolDb, spawnW, poolWg, wk, opLog>>

\* a worker's loop has ended: the deferred wg.Done() runs
WorkerDone(w) ==
    /\ wk[w].pc = "run" /\ wk[w].i >= endIdx(w)
    /\ wk' = [wk EXCEPT ![w] = [@ EXCEPT !.pc = "done"]]
    /\ poolWg' = poolWg - 1
    /\ UNCHANGED <<poolCfg, testVars, poolStats, poolDb, poolPc, spawnW, opLog>>

(***************************************************************************)
(* PebblePerformanceTest: writeOperation, readOperation, writeBatch and    *)
(* worker, performance_test.go lines 100-208.                              *)
(***************************************************************************)
\* a writeOperation that stores 1 in writeOps instead of adding 1 to it
writeOperationOverwritesCount(w, idx) ==
    \E ok \in BOOLEAN :
      /\ IF ok
           THEN /\ poolDb' = PutRange(poolDb, idx, idx + 1)
                /\ poolStats' = [poolStats EXCEPT !.writeOps = 1]
           ELSE /\ UNCHANGED poolDb
                /\ poolStats' = [poolStats EXCEPT !.errors = @ + 1]
      /\ opLog' = Logged(w, LogEntry("write", idx, idx + 1,
                                     IF ok THEN "ok" ELSE "err", idx))

\* a writeOperation that repeats a failed db.Set once, with success
writeOperationRetriesOnce(w, idx) ==
    \E ok \in BOOLEAN :
      /\ poolDb' = PutRange(poolDb, idx, idx + 1)
      /\ poolStats' = IF ok THEN [poolStats EXCEPT !.writeOps = @ + 1]
                            ELSE [poolStats EXCEPT !.errors = @ + 1,
                                                   !.writeOps = @ + 1]
      /\ opLog' = Logged(w, LogEntry("write", idx, idx + 1,
                                     IF ok THEN "ok" ELSE "err", idx))

\* writeOperation(idx): db.Set succeeds (the record is in the store, writeOps + 1)
\* or fails (errors + 1)
writeOperation(w, idx) ==
    \E ok \in BOOLEAN :
      /\ IF ok
           THEN /\ poolDb' = PutRange(poolDb, idx, idx + 1)
                /\ poolStats' = [poolStats EXCEPT !.writeOps = @ + 1]
           ELSE /\ UNCHANGED poolDb
                /\ poolStats' = [poolStats EXCEPT !.errors = @ + 1]
      /\ opLog' = Logged(w, LogEntry("write", idx, idx + 1,
                                     IF ok THEN "ok" ELSE "err", idx))

\* a readOperation that counts a Get that returned ErrNotFound as a read
readOperationCountsNotFound(w, idx) ==
    \E res \in {"ok", "notfound", "err"} :
      /\ res = "ok" => generateKeyValue(idx).key \in DOMAIN poolDb
      /\ res = "notfound" => generateKeyValue(idx).key \notin DOMAIN poolDb
      /\ poolStats' = IF res = "err" THEN [poolStats EXCEPT !.errors = @ + 1]
                                     ELSE [poolStats EXCEPT !.readOps = @ + 1]
      /\ UNCHANGED poolDb
      /\ opLog' = Logged(w, LogEntry("read", idx, idx + 1, res, idx))

\* readOperation(idx): db.Get finds the key (readOps + 1), returns ErrNotFound
\* (no counter changes) or fails otherwise (errors + 1)
readOperation(w, idx) ==
    \E res \in {"ok", "notfound", "err"} :
      /\ res = "ok" => generateKeyValue(idx).key \in DOMAIN poolDb
      /\ res = "notfound" => generateKeyValue(idx).key \notin DOMAIN poolDb
      /\ poolStats' = CASE res = "ok" -> [poolStats EXCEPT !.readOps = @ + 1]
                        [] res = "notfound" -> poolStats
                        [] res = "err" -> [poolStats EXCEPT !.errors = @ + 1]
      /\ UNCHANGED poolDb
      /\ opLog' = Logged(w, LogEntry("read", idx, idx + 1, res, idx))

\* a writeBatch that writes every record to the store as it stages it
writeBatchUnbatched(w, from, to) ==
    \/ /\ poolDb' = PutRange(poolDb, from, to)
       /\ poolStats' = [poolStats EXCEPT !.writeOps = @ + (to - from)]
       /\ opLog' = Logged(w, LogEntry("batch", from, to, "ok", to))
    \/ \E k \in from .. (to - 1) :
         /\ poolDb' = PutRange(poolDb, from, k)
         /\ poolStats' = [poolStats EXCEPT !.errors = @ + 1]
         /\ opLog' = Logged(w, LogEntry("batch", from, to, "stage", k))
    \/ /\ poolDb' = PutRange(poolDb, from, to)
       /\ poolStats' = [poolStats EXCEPT !.errors = @ + 1]
       /\ opLog' = Logged(w, LogEntry("batch", from, to, "commit", to))

\* writeBatch(startIdx, endIdx): the records are staged in a new batch; if
\* batch.Set fails at index k, errors + 1 and the batch is dropped; else
\* batch.Commit either applies every record (writeOps + the chunk's length) or
\* fails and applies none (errors + 1)
writeBatch(w, from, to) ==
    \/ /\ poolDb' = PutRange(poolDb, from, to)
       /\ poolStats' = [poolStats EXCEPT !.writeOps = @ + (to - from)]
       /\ opLog' = Logged(w, LogEntry("batch", from, to, "ok", to))
    \/ \E k \in from .. (to - 1) :
         /\ UNCHANGED poolDb
         /\ poolStats' = [poolStats EXCEPT !.errors = @ + 1]
         /\ opLog' = Logged(w, LogEntry("batch", from, to, "stage", k))
    \/ /\ UNCHANGED poolDb
       /\ poolStats' = [poolStats EXCEPT !.errors = @ + 1]
       /\ opLog' = Logged(w, LogEntry("batch", from, to, "commit", to))

\* p.batchSize > 1 && p.readRatio < 1.0
UsesBatchLoop == batchSize > 1 /\ readRatio < 100

\* a decision that also reads at the ratio itself
IsReadInclusive(idx) == (idx % 100) <= readRatio

\* float64(i % 100) / 100.0 < p.readRatio
IsRead(idx) == (idx % 100) < readRatio

\* a loop of single operations that a failed operation ends
PerfWorkerSingleStopsOnError(w) ==
    /\ harness = "perf" /\ wk[w].pc = "run" /\ wk[w].i < endIdx(w)
    /\ ~UsesBatchLoop
    /\ IF IsRead(wk[w].i) THEN readOperation(w, wk[w].i)
                          ELSE writeOperation(w, wk[w].i)
    /\ wk' = [wk EXCEPT ![w] = [@ EXCEPT !.i =
                IF opLog'[w][Len(opLog'[w])].res = "err" THEN endIdx(w) ELSE @ + 1]]
    /\ UNCHANGED <<poolCfg, testVars, poolPc, spawnW, poolWg>>

\* one pass of the loop of single operations (no batching), lines 199-206
PerfWorkerSingle(w) ==
    /\ harness = "perf" /\ wk[w].pc = "run" /\ wk[w].i < endIdx(w)
    /\ ~UsesBatchLoop
    /\ IF IsRead(wk[w].i) THEN readOperation(w, wk[w].i)
                          ELSE writeOperation(w, wk[w].i)
    /\ wk' = [wk EXCEPT ![w] = [@ EXCEPT !.i = @ + 1]]
    /\ UNCHANGED <<poolCfg, testVars, poolPc, spawnW, poolWg>>

\* one pass of the inner loop over a chunk when the run has reads, lines
\* 183-191: the chunks follow one another, so j runs over the partition
PerfWorkerChunkOp(w) ==
    /\ harness = "perf" /\ wk[w].pc = "run" /\ wk[w].i < endIdx(w)
    /\ UsesBatchLoop /\ readRatio > 0
    /\ IF IsRead(wk[w].i) THEN readOperation(w, wk[w].i)
                          ELSE writeOperation(w, wk[w].i)
    /\ wk' = [wk EXCEPT ![w] = [@ EXCEPT !.i = @ + 1]]
    /\ UNCHANGED <<poolCfg, testVars, poolPc, spawnW, poolWg>>

\* a batch loop whose chunks start at every index of the partition
PerfWorkerBatchOverlapping(w) ==
    /\ harness = "perf" /\ wk[w].pc = "run" /\ wk[w].i < endIdx(w)
    /\ UsesBatchLoop /\ ~(readRatio > 0)
    /\ writeBatch(w, wk[w].i, Min(wk[w].i + batchSize, endIdx(w)))
    /\ wk' = [wk EXCEPT ![w] = [@ EXCEPT !.i = @ + 1]]
    /\ UNCHANGED <<poolCfg, testVars, poolPc, spawnW, poolWg>>

\* one pass of the batch loop of a run without reads, lines 176-195:
\* writeBatch(i, min(i + batchSize, endIdx)), then i += batchSize
PerfWorkerBatch(w) ==
    /\ harness = "perf" /\ wk[w].pc = "run" /\ wk[w].i < endIdx(w)
    /\ UsesBatchLoop /\ ~(readRatio > 0)
    /\ writeBatch(w, wk[w].i, Min(wk[w].i + batchSize, endIdx(w)))
    /\ wk' = [wk EXCEPT ![w] = [@ EXCEPT !.i = @ + batchSize]]
    /\ UNCHANGED <<poolCfg, testVars, poolPc, spawnW, poolWg>>

PoolStart ==
    /\ numWorkers \in 1 .. MaxWorkers
    /\ numOperations \in 0 .. MaxOps
    /\ poolStats = [readOps |-> 0, writeOps |-> 0, errors |-> 0]
    /\ poolDb = <<>>
    /\ poolPc = "spawn"
    /\ spawnW = 0
    /\ poolWg = 0
    /\ wk = [w \in Workers |-> [pc |-> "idle", i |-> 0]]
    /\ opLog = [w \in Workers |-> <<>>]

\* the subtest has constructed the harness and calls its run entry point
Constructed ==
    /\ preloadCount = 0
    /\ preloadI = 0
    /\ poolTestPc = "run"
    /\ tempDir = "exists"
    /\ poolHandle = "open"

\* NewPebblePerformanceTest on an empty store, for every configuration within
\* the bounds
InitPerf ==
    /\ harness = "perf"
    /\ SeqIdle
    /\ VisIdle
    /\ syncWrites \in BOOLEAN
    /\ PoolStart
    /\ Constructed
    /\ testType = "none"
    /\ batchSize \in 1 .. MaxBatch
    /\ readRatio \in {0, 1, 50, 100}

\* the steps of the worker goroutines, each for some worker
SomeWorkerDone == \E w \in Workers : WorkerDone(w)
SomePerfWorkerSingle == \E w \in Workers : PerfWorkerSingle(w)
SomePerfWorkerChunkOp == \E w \in Workers : PerfWorkerChunkOp(w)
SomePerfWorkerBatch == \E w \in Workers : PerfWorkerBatch(w)

NextPerf ==
    \/ PoolSpawn
    \/ PoolReturn
    \/ SomePerfWorkerSingle
    \/ SomePerfWorkerChunkOp
    \/ SomePerfWorkerBatch
    \/ SomeWorkerDone

SpecPerf == InitPerf /\ [][NextPerf]_vars

(***************************************************************************)
(* IndividualWriteTest (pebble and badger): writeOperation, writeWorker    *)
(* and RunWriteTest, individual_write_test.go lines 97-221.                *)
(***************************************************************************)
\* a writeOperation that does not count a failed write
indWriteOperationDropsErrors(w, idx) ==
    \E ok \in BOOLEAN :
      /\ IF ok
           THEN /\ poolDb' = PutRange(poolDb, idx, idx + 1)
                /\ poolStats' = [poolStats EXCEPT !.writeOps = @ + 1]
           ELSE UNCHANGED <<poolDb, poolStats>>
      /\ opLog' = Logged(w, LogEntry("write", idx, idx + 1,
                                     IF ok THEN "ok" ELSE "err", idx))

\* writeOperation(idx) of IndividualWriteTest
indWriteOperation(w, idx) ==
    \E ok \in BOOLEAN :
      /\ IF ok
           THEN /\ poolDb' = PutRange(poolDb, idx, idx + 1)
                /\ poolStats' = [poolStats EXCEPT !.writeOps = @ + 1]
           ELSE /\ UNCHANGED poolDb
                /\ poolStats' = [poolStats EXCEPT !.errors = @ + 1]
      /\ opLog' = Logged(w, LogEntry("write", idx, idx + 1,
                                     IF ok THEN "ok" ELSE "err", idx))

\* one pass of writeWorker's loop
IndWriteWorker(w) ==
    /\ harness = "ind" /\ testType = "write"
    /\ wk[w].pc = "run" /\ wk[w].i < endIdx(w)
    /\ indWriteOperation(w, wk[w].i)
    /\ wk' = [wk EXCEPT ![w] = [@ EXCEPT !.i = @ + 1]]
    /\ UNCHANGED <<poolCfg, testVars, poolPc, spawnW, poolWg>>

\* NewIndividualWriteTest on an empty store, then RunWriteTest
InitInd ==
    /\ harness = "ind"
    /\ SeqIdle
    /\ VisIdle
    /\ syncWrites \in BOOLEAN
    /\ PoolStart
    /\ Constructed
    /\ testType = "write"
    /\ batchSize = 1
    /\ readRatio = 0

SomeIndWriteWorker == \E w \in Workers : IndWriteWorker(w)

NextInd ==
    \/ PoolSpawn
    \/ PoolReturn
    \/ SomeIndWriteWorker
    \/ SomeWorkerDone

SpecInd == InitInd /\ [][NextInd]_vars

(***************************************************************************)
(* TestPebbleIndividualWrites: one subtest from NewIndividualWriteTest to  *)
(* the deferred Cleanup, individual_write_test.go lines 311-347, with      *)
(* preloadData, readWorker, mixedWorker and the three run entry points.    *)
(***************************************************************************)
\* a readOperation that counts a key that is not found as an error
indReadOperationCountsNotFound(w, idx) ==
    \E res \in {"ok", "notfound", "err"} :
      /\ res = "ok" => generateKeyValue(idx).key \in DOMAIN poolDb
      /\ res = "notfound" => generateKeyValue(idx).key \notin DOMAIN poolDb
      /\ poolStats' = IF res = "ok" THEN [poolStats EXCEPT !.readOps = @ + 1]
                                    ELSE [poolStats EXCEPT !.errors = @ + 1]
      /\ UNCHANGED poolDb
      /\ opLog' = Logged(w, LogEntry("read", idx, idx + 1, res, idx))

\* readOperation(idx) of IndividualWriteTest: db.Get finds the key (readOps + 1),
\* returns ErrNotFound (no counter changes) or fails otherwise (errors + 1)
indReadOperation(w, idx) ==
    \E res \in {"ok", "notfound", "err"} :
      /\ res = "ok" => generateKeyValue(idx).key \in DOMAIN poolDb
      /\ res = "notfound" => generateKeyValue(idx).key \notin DOMAIN poolDb
      /\ poolStats' = CASE res = "ok" -> [poolStats EXCEPT !.readOps = @ + 1]
                        [] res = "notfound" -> poolStats
                        [] res = "err" -> [poolStats EXCEPT !.errors = @ + 1]
      /\ UNCHANGED poolDb
      /\ opLog' = Logged(w, LogEntry("read", idx, idx + 1, res, idx))

\* a readWorker that reads every second index of its partition
IndReadWorkerEverySecond(w) ==
    /\ harness = "ind" /\ testType = "read"
    /\ wk[w].pc = "run" /\ wk[w].i < endIdx(w)
    /\ indReadOperation(w, wk[w].i)
    /\ wk' = [wk EXCEPT ![w] = [@ EXCEPT !.i = @ + 2]]
    /\ UNCHANGED <<poolCfg, testVars, poolPc, spawnW, poolWg>>

\* one pass of readWorker's loop
IndReadWorker(w) ==
    /\ harness = "ind" /\ testType = "read"
    /\ wk[w].pc = "run" /\ wk[w].i < endIdx(w)
    /\ indReadOperation(w, wk[w].i)
    /\ wk' = [wk EXCEPT ![w] = [@ EXCEPT !.i = @ + 1]]
    /\ UNCHANGED <<poolCfg, testVars, poolPc, spawnW, poolWg>>

\* a mixed worker that reads the loop index itself
mixedReadIdxIdentity(w, i) == i

\* the index mixedWorker reads in pass i: i % (startIdx + 1)
mixedReadIdx(w, i) == i % (startIdx(w) + 1)

\* one pass of mixedWorker's loop: r.Float64() lies in [0, 1), so the pass may
\* read when readRatio > 0 and may write when readRatio < 1
IndMixedWorker(w) ==
    /\ harness = "ind" /\ testType = "mixed"
    /\ wk[w].pc = "run" /\ wk[w].i < endIdx(w)
    /\ \/ /\ readRatio > 0
          /\ indReadOperation(w, mixedReadIdx(w, wk[w].i))
       \/ /\ readRatio < 100
          /\ indWriteOperation(w, wk[w].i)
    /\ wk' = [wk EXCEPT ![w] = [@ EXCEPT !.i = @ + 1]]
    /\ UNCHANGED <<poolCfg, testVars, poolPc, spawnW, poolWg>>

runVars == <<poolStats, poolDb, poolPc, spawnW, poolWg, wk, opLog>>

\* NewIndividualWriteTest: os.MkdirTemp fails; no directory, no instance, t.Fatalf
TestNewMkdirFails ==
    /\ poolTestPc = "new"
    /\ poolTestPc' = "failed"
    /\ UNCHANGED <<poolCfg, runVars, preloadI, tempDir, poolHandle>>

\* NewIndividualWriteTest: pebble.Open fails; os.RemoveAll(tempDir), no instance,
\* t.Fatalf
TestNewOpenFails ==
    /\ poolTestPc = "new"
    /\ tempDir' = "removed"
    /\ poolTestPc' = "failed"
    /\ UNCHANGED <<poolCfg, runVars, preloadI, poolHandle>>

\* NewIndividualWriteTest succeeds and the subtest defers test.Cleanup(); a
\* "write" subtest calls RunWriteTest at once, the others call preloadData first
TestNewOk ==
    /\ poolTestPc = "new"
    /\ tempDir' = "exists"
    /\ poolHandle' = "open"
    /\ IF testType = "write"
         THEN poolTestPc' = "run" /\ poolPc' = "spawn"
         ELSE poolTestPc' = "preload" /\ UNCHANGED poolPc
    /\ UNCHANGED <<poolCfg, poolStats, poolDb, spawnW, poolWg, wk, opLog, preloadI>>

\* a preload whose failure ends the subtest without running the deferred Cleanup
PreloadSetExitsOnError ==
    /\ poolTestPc = "preload" /\ preloadI < preloadCount
    /\ \/ /\ poolDb' = PutRange(poolDb, preloadI, preloadI + 1)
          /\ preloadI' = preloadI + 1
          /\ UNCHANGED poolTestPc
       \/ /\ poolTestPc' = "end"
          /\ UNCHANGED <<poolDb, preloadI>>
    /\ UNCHANGED <<poolCfg, poolStats, poolPc, spawnW, poolWg, wk, opLog, tempDir,
                   poolHandle>>

\* one pass of preloadData's loop: db.Set stores record i, or fails, and then
\* preloadData returns the error and the subtest ends with t.Fatalf
PreloadSet ==
    /\ poolTestPc = "preload" /\ preloadI < preloadCount
    /\ \/ /\ poolDb' = PutRange(poolDb, preloadI, preloadI + 1)
          /\ preloadI' = preloadI + 1
          /\ UNCHANGED poolTestPc
       \/ /\ poolTestPc' = "cleanup"
          /\ UNCHANGED <<poolDb, preloadI>>
    /\ UNCHANGED <<poolCfg, poolStats, poolPc, spawnW, poolWg, wk, opLog, tempDir,
                   poolHandle>>

\* preloadData returns nil; the subtest calls RunReadTest or RunMixedTest
PreloadDone ==
    /\ poolTestPc = "preload" /\ ~(preloadI < preloadCount)
    /\ poolTestPc' = "run"
    /\ poolPc' = "spawn"
    /\ UNCHANGED <<poolCfg, poolStats, poolDb, spawnW, poolWg, wk, opLog, preloadI,
                   tempDir, poolHandle>>

\* the run entry point has returned: test.PrintResults, then the subtest ends
TestPrintResults ==
    /\ poolTestPc = "run" /\ poolPc = "returned"
    /\ poolTestPc' = "cleanup"
    /\ UNCHANGED <<poolCfg, runVars, preloadI, tempDir, poolHandle>>

\* the deferred test.Cleanup(), lines 71-78: t.db.Close(), os.RemoveAll(t.tempDir)
PoolCleanup ==
    /\ poolTestPc = "cleanup"
    /\ poolHandle' = "closed"
    /\ tempDir' = "removed"
    /\ poolTestPc' = "end"
    /\ UNCHANGED <<poolCfg, runVars, preloadI>>

\* a subtest of TestPebbleIndividualWrites before NewIndividualWriteTest, for
\* every configuration within the bounds; preloadCount is the count the subtest
\* passes to preloadData
InitTest ==
    /\ harness = "ind"
    /\ SeqIdle
    /\ VisIdle
    /\ syncWrites \in BOOLEAN
    /\ numWorkers \in 1 .. MaxWorkers
    /\ numOperations \in 0 .. MaxOps
    /\ batchSize = 1
    /\ testType \in {"write", "read", "mixed"}
    /\ readRatio \in CASE testType = "write" -> {0}
                       [] testType = "read" -> {100}
                       [] testType = "mixed" -> {50, 80}
    /\ preloadCount \in IF testType = "write" THEN {0} ELSE 0 .. numOperations
    /\ preloadI = 0
    /\ poolTestPc = "new"
    /\ tempDir = "none"
    /\ poolHandle = "none"
    /\ poolStats = [readOps |-> 0, writeOps |-> 0, errors |-> 0]
    /\ poolDb = <<>>
    /\ poolPc = "none"
    /\ spawnW = 0
    /\ poolWg = 0
    /\ wk = [w \in Workers |-> [pc |-> "idle", i |-> 0]]
    /\ opLog = [w \in Workers |-> <<>>]

SomeIndReadWorker == \E w \in Workers : IndReadWorker(w)
SomeIndMixedWorker == \E w \in Workers : IndMixedWorker(w)

NextTest ==
    \/ TestNewMkdirFails
    \/ TestNewOpenFails
    \/ TestNewOk
    \/ PreloadSet
    \/ PreloadDone
    \/ PoolSpawn
    \/ PoolReturn
    \/ SomeIndWriteWorker
    \/ SomeIndReadWorker
    \/ SomeIndMixedWorker
    \/ SomeWorkerDone
    \/ TestPrintResults
    \/ PoolCleanup

SpecTest == InitTest /\ [][NextTest]_vars

(***************************************************************************)
(* Both worker-pool harnesses: a PebblePerformanceTest run or a subtest of *)
(* TestPebbleIndividualWrites.                                             *)
(***************************************************************************)
InitPool == InitPerf \/ InitTest

NextPool ==
    \/ TestNewMkdirFails
    \/ TestNewOpenFails
    \/ TestNewOk
    \/ PreloadSet
    \/ PreloadDone
    \/ PoolSpawn
    \/ PoolReturn
    \/ SomePerfWorkerSingle
    \/ SomePerfWorkerChunkOp
    \/ SomePerfWorkerBatch
    \/ SomeIndWriteWorker
    \/ SomeIndReadWorker
    \/ SomeIndMixedWorker
    \/ SomeWorkerDone
    \/ TestPrintResults
    \/ PoolCleanup

SpecPool == InitPool /\ [][NextPool]_vars

(***************************************************************************)
(* generateKeyValue on its own: a harness of some keySize and valueSize    *)
(* encodes two indices, as writeOperation(i) and readOperation(j) do.      *)
(***************************************************************************)
InitCodec ==
    /\ harness = "codec"
    /\ VisIdle
    /\ PoolIdle
    /\ syncWrites = FALSE
    /\ codecKeySize \in 1 .. MaxKeySize
    /\ codecValueSize \in 2 .. (MaxKeySize + 2)
    /\ codecIdx \in (0 .. MaxIdx) \X (0 .. MaxIdx)
    /\ codecOut = <<>>
    /\ ScanIdle
    /\ AnalyzeIdle
    /\ InsertIdle

\* key, value := generateKeyValue(idx), for both indices
Encode ==
    /\ harness = "codec" /\ codecOut = <<>>
    /\ codecOut' = <<generateKeyValueOf(codecKeySize, codecValueSize, codecIdx[1]),
                     generateKeyValueOf(codecKeySize, codecValueSize, codecIdx[2])>>
    /\ UNCHANGED <<harness, visVars, poolVars, codecKeySize, codecValueSize,
                   codecIdx, scanStore, scanPrefix, scanPc, scanIter, scanResults,
                   an, ins>>

NextCodec == Encode

SpecCodec == InitCodec /\ [][NextCodec]_vars

(***************************************************************************)
(* scanHandler of the HTTP server: one GET /scan request over a store.     *)
(* Keys and the prefix are byte strings, written as sequences of one-      *)
(* character strings; the store iterates in bytewise order.                *)
(***************************************************************************)
Test1 == <<"t", "e", "s", "t", "1">>
Test2 == <<"t", "e", "s", "t", "2">>
Other1 == <<"o", "t", "h", "e", "r", "1">>

\* the keys a store is built from
ScanKeys == {Test1, Test2, Other1, <<"t">>, <<"u">>, <<"t", "e">>, <<"t", "f">>,
             <<"t", "e", "s", "t">>}

\* the values a store binds its keys to
ScanValues == {"x", "y"}

\* the values of the prefix query parameter; <<>> is an absent or empty one
ScanPrefixes == {<<>>, <<"t">>, <<"t", "e">>, <<"t", "e", "s", "t">>, <<"o">>,
                 <<"u">>}

\* the byte of a character
Byte(c) ==
    CASE c = "1" -> 49 [] c = "2" -> 50 [] c = "e" -> 101 [] c = "f" -> 102
      [] c = "h" -> 104 [] c = "o" -> 111 [] c = "r" -> 114 [] c = "s" -> 115
      [] c = "t" -> 116 [] c = "u" -> 117

RECURSIVE LexLess(_, _)
\* bytes.Compare(a, b) < 0, the order of pebble's default comparer
LexLess(a, b) ==
    IF b = <<>> THEN FALSE
    ELSE IF a = <<>> THEN TRUE
    ELSE IF a[1] # b[1] THEN Byte(a[1]) < Byte(b[1])
    ELSE LexLess(Tail(a), Tail(b))

\* the position of key k in the iteration order of the store
Rank(k) == 1 + Cardinality({j \in DOMAIN scanStore : LexLess(j, k)})

\* iter.Valid()
IterValid == scanIter \in 1 .. Cardinality(DOMAIN scanStore)

\* iter.Key()
IterKey == CHOOSE k \in DOMAIN scanStore : Rank(k) = scanIter

\* an iterator positioned at the first key whatever the prefix
SeekGEFirst(prefix) == 1

\* iter.SeekGE(prefix): the position of the first key that is not below prefix
SeekGE(prefix) == Rank(prefix)

\* the test of line 157 that ends the loop
ScanBreaks(key) ==
    /\ scanPrefix # <<>>
    /\ Len(key) >= Len(scanPrefix)
    /\ SubSeq(key, 1, Len(scanPrefix)) # scanPrefix

\* a GET /scan request arrives at a server whose store holds some records
InitScan ==
    /\ harness = "scan"
    /\ VisIdle
    /\ PoolIdle
    /\ syncWrites = FALSE
    /\ CodecIdle
    /\ AnalyzeIdle
    /\ InsertIdle
    /\ scanStore \in UNION {[S -> ScanValues] :
                              S \in {T \in SUBSET ScanKeys : Cardinality(T) <= MaxStore}}
    /\ scanPrefix \in ScanPrefixes
    /\ scanPc = "start"
    /\ scanIter = 0
    /\ scanResults = <<>>

scanFrame == <<harness, visVars, poolVars, codecKeySize, codecValueSize, codecIdx,
               codecOut, an, ins, scanStore, scanPrefix>>

\* lines 135-149: the iterator is created, results is an empty map, and the
\* iterator is positioned by SeekGE(prefix) or, without a prefix, by First()
ScanSeek ==
    /\ harness = "scan" /\ scanPc = "start"
    /\ scanIter' = IF scanPrefix # <<>> THEN SeekGE(scanPrefix) ELSE 1
    /\ scanPc' = "loop"
    /\ UNCHANGED <<scanFrame, scanResults>>

\* a pass of the loop that does not break: results[key] = value; iter.Next()
ScanCollect ==
    /\ harness = "scan" /\ scanPc = "loop" /\ IterValid
    /\ ~ScanBreaks(IterKey)
    /\ scanResults' = StorePut(scanResults, IterKey, scanStore[IterKey])
    /\ scanIter' = scanIter + 1
    /\ UNCHANGED <<scanFrame, scanPc>>

\* a pass of the loop that breaks; iter.Error() is nil and results is encoded
ScanBreak ==
    /\ harness = "scan" /\ scanPc = "loop" /\ IterValid
    /\ ScanBreaks(IterKey)
    /\ scanPc' = "done"
    /\ UNCHANGED <<scanFrame, scanIter, scanResults>>

\* the iterator is exhausted; iter.Error() is nil and results is encoded
ScanExhausted ==
    /\ harness = "scan" /\ scanPc = "loop" /\ ~IterValid
    /\ scanPc' = "done"
    /\ UNCHANGED <<scanFrame, scanIter, scanResults>>

\* the iterator fails: Valid() is false, iter.Error() is not nil and the
\* response is a 500 without results
ScanIterError ==
    /\ harness = "scan" /\ scanPc = "loop"
    /\ scanPc' = "error"
    /\ UNCHANGED <<scanFrame, scanIter, scanResults>>

NextScan ==
    \/ ScanSeek
    \/ ScanCollect
    \/ ScanBreak
    \/ ScanExhausted
    \/ ScanIterError

SpecScan == InitScan /\ [][NextScan]_vars

(***************************************************************************)
(* AnalyzeResults, lines 191-268, on its own: the reducer over the latency *)
(* slots a finished run has left, each holding a latency in nanoseconds or *)
(* the miss sentinel.  an holds the slots and the locals of the function.  *)
(***************************************************************************)
\* time.Microsecond and time.Millisecond, in nanoseconds
Microsecond == 1000
Millisecond == 1000000

\* the slot values the analysis is run over: the miss sentinel and the latencies
\* on either side of every bucket boundary
AnalyzeLatencies ==
    {MissSentinel, 0}
      \cup UNION {{b - 1, b} : b \in {Microsecond, 10 * Microsecond, 100 * Microsecond,
                                      Millisecond, 10 * Millisecond, 100 * Millisecond}}

\* the keys of latencyBuckets, in the order of the switch
BucketNames == <<"0-1us", "1-10us", "10-100us", "100us-1ms", "1-10ms", "10-100ms",
                 "100ms+">>

\* a switch whose comparisons include the upper boundary
BucketOfInclusiveUpper(latency) ==
    CASE latency <= 1 * Microsecond -> "0-1us"
      [] latency > 1 * Microsecond /\ latency <= 10 * Microsecond -> "1-10us"
      [] latency > 10 * Microsecond /\ latency <= 100 * Microsecond -> "10-100us"
      [] latency > 100 * Microsecond /\ latency <= 1 * Millisecond -> "100us-1ms"
      [] latency > 1 * Millisecond /\ latency <= 10 * Millisecond -> "1-10ms"
      [] latency > 10 * Millisecond /\ latency <= 100 * Millisecond -> "10-100ms"
      [] OTHER -> "100ms+"

\* the switch of lines 241-256: the first case that holds, in order
BucketOf(latency) ==
    IF latency < 1 * Microsecond THEN "0-1us"
    ELSE IF latency < 10 * Microsecond THEN "1-10us"
    ELSE IF latency < 100 * Microsecond THEN "10-100us"
    ELSE IF latency < 1 * Millisecond THEN "100us-1ms"
    ELSE IF latency < 10 * Millisecond THEN "1-10ms"
    ELSE IF latency < 100 * Millisecond THEN "10-100ms"
    ELSE "100ms+"

\* AnalyzeResults is entered with the slots of a finished run
InitAnalyze ==
    /\ harness = "analyze"
    /\ VisIdle
    /\ PoolIdle
    /\ syncWrites = FALSE
    /\ CodecIdle
    /\ ScanIdle
    /\ InsertIdle
    /\ an \in {[readLatencies |-> s, writeCount |-> Len(s), pc |-> "first", i |-> 0,
                totalLatency |-> 0, minLatency |-> -1, maxLatency |-> 0,
                successCount |-> 0, avgLatency |-> "none", latencyBuckets |-> <<>>] :
                 s \in UNION {[1 .. n -> AnalyzeLatencies] : n \in 0 .. MaxSlots}}

analyzeFrame == <<harness, visVars, poolVars, codecKeySize, codecValueSize, codecIdx,
                  codecOut, scanStore, scanPrefix, scanPc, scanIter, scanResults,
                  ins>>

\* a first loop that counts every slot as a success
AnalyzeFirstPassCountsMisses ==
    /\ harness = "analyze" /\ an.pc = "first" /\ an.i < Len(an.readLatencies)
    /\ LET latency == an.readLatencies[an.i + 1]
       IN an' = [an EXCEPT !.i = @ + 1,
                           !.successCount = @ + 1,
                           !.totalLatency = @ + latency,
                           !.minLatency = IF @ = -1 \/ latency < @ THEN latency ELSE @,
                           !.maxLatency = IF latency > @ THEN latency ELSE @]
    /\ UNCHANGED analyzeFrame

\* a pass of the first loop, lines 198-211
AnalyzeFirstPass ==
    /\ harness = "analyze" /\ an.pc = "first" /\ an.i < Len(an.readLatencies)
    /\ LET latency == an.readLatencies[an.i + 1]
       IN IF latency >= 0
            THEN an' = [an EXCEPT !.i = @ + 1,
                                  !.successCount = @ + 1,
                                  !.totalLatency = @ + latency,
                                  !.minLatency = IF @ = -1 \/ latency < @
                                                   THEN latency ELSE @,
                                  !.maxLatency = IF latency > @ THEN latency ELSE @]
            ELSE an' = [an EXCEPT !.i = @ + 1]
    /\ UNCHANGED analyzeFrame

\* lines 219-234: the first loop has ended with a success; the average is the
\* integer quotient and latencyBuckets is created with its seven keys at zero
AnalyzeAverage ==
    /\ harness = "analyze" /\ an.pc = "first" /\ an.i = Len(an.readLatencies)
    /\ an.successCount > 0
    /\ an' = [an EXCEPT !.avgLatency = an.totalLatency \div an.successCount,
                        !.latencyBuckets =
                            [b \in {BucketNames[k] : k \in DOMAIN BucketNames} |-> 0],
                        !.pc = "second",
                        !.i = 0]
    /\ UNCHANGED analyzeFrame

\* line 219: the first loop has ended without a success; nothing more is computed
AnalyzeNoSuccess ==
    /\ harness = "analyze" /\ an.pc = "first" /\ an.i = Len(an.readLatencies)
    /\ an.successCount = 0
    /\ an' = [an EXCEPT !.pc = "done"]
    /\ UNCHANGED analyzeFrame

\* a pass of the second loop, lines 236-257
AnalyzeSecondPass ==
    /\ harness = "analyze" /\ an.pc = "second" /\ an.i < Len(an.readLatencies)
    /\ LET latency == an.readLatencies[an.i + 1]
       IN IF latency < 0
            THEN an' = [an EXCEPT !.i = @ + 1]
            ELSE an' = [an EXCEPT !.i = @ + 1,
                                  !.latencyBuckets[BucketOf(latency)] = @ + 1]
    /\ UNCHANGED analyzeFrame

\* the second loop has ended; the distribution is printed
AnalyzeSecondDone ==
    /\ harness = "analyze" /\ an.pc = "second" /\ an.i = Len(an.readLatencies)
    /\ an' = [an EXCEPT !.pc = "done"]
    /\ UNCHANGED analyzeFrame

NextAnalyze ==
    \/ AnalyzeFirstPass
    \/ AnalyzeAverage
    \/ AnalyzeNoSuccess
    \/ AnalyzeSecondPass
    \/ AnalyzeSecondDone

SpecAnalyze == InitAnalyze /\ [][NextAnalyze]_vars

(***************************************************************************)
(* insertItemsIndividually, individual_write_test.go lines 456-497.  ins   *)
(* holds the arguments numItems and numWorkers, the spawn loop's w, the    *)
(* WaitGroup counter, each goroutine's position and loop index, the store, *)
(* and for each goroutine the db.Set calls it has made.                    *)
(***************************************************************************)
\* itemsPerWorker := numItems / numWorkers
itemsPerWorker == ins.numItems \div ins.numWorkers

\* remainingItems := numItems % numWorkers
remainingItems == ins.numItems % ins.numWorkers

\* start := workerID * itemsPerWorker
insertStart(workerID) == workerID * itemsPerWorker

\* an end index that leaves the remainder to nobody
insertEndTruncating(workerID) == insertStart(workerID) + itemsPerWorker

\* end := start + itemsPerWorker + extraItems, with extraItems = remainingItems
\* for the last worker and 0 for the others
insertEnd(workerID) ==
    insertStart(workerID) + itemsPerWorker
      + (IF workerID = ins.numWorkers - 1 THEN remainingItems ELSE 0)

\* the key and the value of item i: "key-<i>" and "value-<i>"
insertKey(i) == <<"key-", i>>
insertValue(i) == <<"value-", i>>

\* insertItemsIndividually is called on a cleared store
InitInsert ==
    /\ harness = "insert"
    /\ VisIdle
    /\ PoolIdle
    /\ syncWrites = FALSE
    /\ CodecIdle
    /\ ScanIdle
    /\ AnalyzeIdle
    /\ ins \in {[numItems |-> n, numWorkers |-> k, pc |-> "spawn", w |-> 0, wg |-> 0,
                 go |-> [g \in 0 .. (k - 1) |-> [pc |-> "idle", i |-> 0]],
                 sets |-> [g \in 0 .. (k - 1) |-> <<>>],
                 db |-> <<>>] :
                  n \in 0 .. MaxItems, k \in 1 .. MaxInsertWorkers}

insertFrame == <<harness, visVars, poolVars, codecKeySize, codecValueSize, codecIdx,
                 codecOut, scanStore, scanPrefix, scanPc, scanIter, scanResults, an>>

\* wg.Add(1); go func(workerID) with workerID = w; the goroutine computes start
InsertSpawn ==
    /\ harness = "insert" /\ ins.pc = "spawn" /\ ins.w < ins.numWorkers
    /\ ins' = [ins EXCEPT !.wg = @ + 1,
                          !.go[ins.w] = [pc |-> "run", i |-> insertStart(ins.w)],
                          !.w = @ + 1]
    /\ UNCHANGED insertFrame

\* one pass of a goroutine's loop: db.Set(key, value, pebble.Sync) writes the
\* item or fails (b.Errorf, and the loop goes on)
InsertSet(g) ==
    /\ harness = "insert" /\ ins.go[g].pc = "run" /\ ins.go[g].i < insertEnd(g)
    /\ \E ok \in BOOLEAN :
         ins' = [ins EXCEPT
                   !.db = IF ok THEN StorePut(@, insertKey(ins.go[g].i),
                                              insertValue(ins.go[g].i))
                               ELSE @,
                   !.sets[g] = Append(@, [idx |-> ins.go[g].i,
                                          res |-> IF ok THEN "ok" ELSE "err"]),
                   !.go[g].i = @ + 1]
    /\ UNCHANGED insertFrame

\* a goroutine's loop has ended: the deferred wg.Done() runs
InsertDone(g) ==
    /\ harness = "insert" /\ ins.go[g].pc = "run" /\ ins.go[g].i >= insertEnd(g)
    /\ ins' = [ins EXCEPT !.go[g].pc = "done", !.wg = @ - 1]
    /\ UNCHANGED insertFrame

\* the spawn loop has ended; wg.Wait() returns once the counter is zero, and the
\* function logs and returns
InsertReturn ==
    /\ harness = "insert" /\ ins.pc = "spawn" /\ ins.w >= ins.numWorkers
    /\ ins.wg = 0
    /\ ins' = [ins EXCEPT !.pc = "returned"]
    /\ UNCHANGED insertFrame

SomeInsertSet == \E g \in DOMAIN ins.go : InsertSet(g)
SomeInsertDone == \E g \in DOMAIN ins.go : InsertDone(g)

NextInsert ==
    \/ InsertSpawn
    \/ SomeInsertSet
    \/ SomeInsertDone
    \/ InsertReturn

SpecInsert == InitInsert /\ [][NextInsert]_vars

(***************************************************************************)
(* Properties of the visibility run.                                       *)
(***************************************************************************)
Spawned == {idx \in DOMAIN rd : rd[idx].pc # "idle"}

Finished == {idx \in DOMAIN rd : rd[idx].pc = "done"}

Slot(idx) == stats.readLatencies[idx]

\* C1: Run never returns while a reader task it spawned is still running, on
\* every exit path of Run, the one where a write fails at an index > 0 included.
C1_RunReturnsAfterAllReaders ==
    runPc = "returned" => \A idx \in Spawned : rd[idx].pc = "done"

C5_OneOutcomePerIndex ==
    runErr = "nil" =>
      /\ \A idx \in 0 .. (writeCount - 1) :
           \/ rd[idx].pc = "done" /\ rd[idx].found /\ Slot(idx) >= 0
           \/ /\ rd[idx].pc = "done" /\ ~rd[idx].found
              /\ rd[idx].i = readAttempts /\ Slot(idx) = MissSentinel
      /\ stats.readOps = Cardinality({idx \in DOMAIN rd : rd[idx].found})
      /\ stats.readMisses =
           Cardinality({idx \in DOMAIN rd : Slot(idx) = MissSentinel})
      /\ stats.readOps + stats.readMisses = writeCount

\* a run that returned nil with one key observed and one key missed
C5_Witness ==
    /\ runErr = "nil" /\ writeCount = 2
    /\ stats.readOps = 1 /\ stats.readMisses = 1

\* C6 as claimed: a reader all of whose poll attempts failed with an error other
\* than not-found does not set its slot to -1 and does not count a miss.
C6_ErrorsAreNotMisses ==
    \A idx \in Finished :
      (readAttempts >= 1 /\ logged[idx] = readAttempts) =>
        (Slot(idx) # MissSentinel /\ stats.readMisses = 0)

\* C6 as amended: an error other than not-found is printed and then handled as
\* not-found is: it uses up one attempt and the loop goes on.  A reader that
\* never found its key has used its whole budget, whatever the failures were,
\* holds -1 in its slot and is counted in readMisses; a reader that found its
\* key, also after errors, holds a latency >= 0 and is not counted as a miss.
C6_ErrorsUseUpAttempts ==
    /\ \A idx \in Spawned : logged[idx] <= rd[idx].i
    /\ \A idx \in Finished :
         IF rd[idx].found
           THEN Slot(idx) >= 0 /\ rd[idx].i < readAttempts
           ELSE Slot(idx) = MissSentinel /\ rd[idx].i = readAttempts
    /\ stats.readMisses = Cardinality({idx \in Finished : ~rd[idx].found})

\* a reader whose every attempt failed with an error and that is a miss
C6_Witness ==
    \E idx \in Finished :
      /\ readAttempts >= 1 /\ logged[idx] = readAttempts
      /\ Slot(idx) = MissSentinel /\ stats.readMisses >= 1

\* where reader idx stands; "idle" for an index the run does not have
ReaderPc(idx) == IF idx \in DOMAIN rd THEN rd[idx].pc ELSE "idle"

\* the number of db.Get calls reader idx has issued
GetCalls(idx) == rd[idx].i + (IF rd[idx].found THEN 1 ELSE 0)

\* C7: every reader issues at most readAttempts Get calls and, as long as its
\* Get calls return, finishes; a Run whose writes all return (with nil or with
\* an error) returns.
C7_ReadersAndRunTerminate ==
    /\ [](\A idx \in Spawned : GetCalls(idx) <= readAttempts)
    /\ \A idx \in Indices :
         (ReaderPc(idx) = "loop") ~> (ReaderPc(idx) = "done" \/ crashed)
    /\ <>(runPc = "returned")

\* a run that returned nil after a reader used its whole budget of attempts
C7_Witness ==
    /\ runErr = "nil" /\ readAttempts = MaxAttempts
    /\ \E idx \in Finished : rd[idx].i = readAttempts /\ ~rd[idx].found

\* C8: every recorded non-miss latency is >= 0, in Sync and in NoSync mode and
\* also when the first poll attempt observes the key; a slot is negative only
\* when it holds the miss sentinel -1 of a reader that did not find its key.
C8_LatencyNonNegative ==
    \A idx \in DOMAIN rd :
      /\ Slot(idx) >= 0 \/ Slot(idx) = MissSentinel
      /\ Slot(idx) < 0 => (rd[idx].pc = "done" /\ ~rd[idx].found)
      /\ rd[idx].found => (rd[idx].readLatency >= 0 /\ Slot(idx) = rd[idx].readLatency)

\* a Sync-mode reader whose first attempt observed the key after time had passed
C8_Witness ==
    \E idx \in Finished :
      syncWrites /\ rd[idx].found /\ rd[idx].i = 0 /\ Slot(idx) > 0

\* C9: with readAttempts >= 1, a store in which a key is readable as soon as Set
\* has returned, and no failing Get, no reader misses: every finished reader
\* succeeded on its first attempt, no slot holds -1 and readMisses is 0.
C9_NoMissOnImmediateStore ==
    (storeImmediate /\ readAttempts >= 1 /\ \A idx \in DOMAIN rd : logged[idx] = 0)
      => /\ stats.readMisses = 0
         /\ \A idx \in DOMAIN rd : Slot(idx) # MissSentinel
         /\ \A idx \in Finished : rd[idx].found /\ rd[idx].i = 0

\* a Sync run on such a store that returned nil with every key observed
C9_Witness ==
    /\ storeImmediate /\ syncWrites /\ readAttempts >= 1
    /\ runErr = "nil" /\ writeCount = MaxWrites
    /\ stats.readOps = writeCount /\ stats.readMisses = 0

\* C17: each slot of readLatencies is stored into at most once, and only by the
\* reader goroutine spawned for its index: a slot has been stored into exactly
\* when that reader has ended.
C17_OneWriterPerSlot ==
    \A idx \in DOMAIN slotWrites :
      /\ Len(slotWrites[idx]) <= 1
      /\ \A k \in 1 .. Len(slotWrites[idx]) : slotWrites[idx][k] = idx
      /\ Len(slotWrites[idx]) = (IF rd[idx].pc = "done" THEN 1 ELSE 0)

\* a finished run of two writes: one reader stored a latency, the other the
\* miss sentinel, each into its own slot
C17_Witness ==
    /\ runPc = "returned" /\ runErr = "nil" /\ writeCount = 2
    /\ \A idx \in DOMAIN slotWrites : slotWrites[idx] = <<idx>>
    /\ \E idx \in DOMAIN rd : rd[idx].found
    /\ \E idx \in DOMAIN rd : Slot(idx) = MissSentinel

(***************************************************************************)
(* Properties of the worker-pool runs.                                     *)
(***************************************************************************)
\* the places of the entries of opLog: <<worker, position in its log>>
LogPlaces == {pl \in Workers \X (1 .. MaxOps + 1) : pl[2] <= Len(opLog[pl[1]])}

EntryAt(pl) == opLog[pl[1]][pl[2]]

\* the entries of opLog whose operation took index idx
Taking(idx) == {pl \in LogPlaces : EntryAt(pl).from <= idx /\ idx < EntryAt(pl).to}

\* C2 as claimed: after a write-only run of N operations over W workers,
\* 1 <= W <= N, writeOps + errors = N and readOps = 0, whatever failed.
C2_CountersSumToN ==
    (poolPc = "returned" /\ 1 <= numWorkers /\ numWorkers <= numOperations)
      => /\ poolStats.writeOps + poolStats.errors = numOperations
         /\ poolStats.readOps = 0

\* C2 as amended: after a write-only run of N operations over W workers,
\* 1 <= W <= N, writeOps + errors = W * floor(N / W) (which is N exactly when
\* W divides N) and readOps = 0, whatever failed.
C2_CountersSumToExecuted ==
    (poolPc = "returned" /\ 1 <= numWorkers /\ numWorkers <= numOperations)
      => /\ poolStats.writeOps + poolStats.errors
              = numWorkers * (numOperations \div numWorkers)
         /\ (numOperations % numWorkers = 0
               <=> poolStats.writeOps + poolStats.errors = numOperations)
         /\ poolStats.readOps = 0

\* a finished run of 3 operations over 2 workers with a failed and a good write
C2_Witness ==
    /\ harness = "ind" /\ poolPc = "returned"
    /\ numOperations = 3 /\ numWorkers = 2
    /\ poolStats.writeOps = 1 /\ poolStats.errors = 1

Committed ==
    {idx \in 0 .. MaxOps :
       \E pl \in Taking(idx) : EntryAt(pl).op = "batch" /\ EntryAt(pl).res = "ok"}

\* C10: in the batch loop a chunk is all or nothing: when staging or committing
\* a chunk failed, no record of the chunk is in the store, writeOps was not
\* increased for it and errors was incremented exactly once for it; so errors
\* is the number of failed chunks, writeOps the number of records of committed
\* chunks, and the store holds exactly those records.
C10_BatchAllOrNothing ==
    (harness = "perf" /\ UsesBatchLoop /\ readRatio = 0) =>
      /\ \A pl \in LogPlaces :
           (EntryAt(pl).op = "batch" /\ EntryAt(pl).res # "ok") =>
             \A idx \in EntryAt(pl).from .. (EntryAt(pl).to - 1) :
               generateKeyValue(idx).key \notin DOMAIN poolDb
      /\ poolStats.errors = Cardinality({pl \in LogPlaces : EntryAt(pl).res # "ok"})
      /\ poolStats.writeOps = Cardinality(Committed)
      /\ DOMAIN poolDb = {generateKeyValue(idx).key : idx \in Committed}

\* a chunk of two records whose staging failed at the second record, beside a
\* committed chunk
C10_Witness ==
    /\ harness = "perf" /\ UsesBatchLoop /\ readRatio = 0
    /\ \E pl \in LogPlaces :
         /\ EntryAt(pl).res = "stage"
         /\ EntryAt(pl).to - EntryAt(pl).from = 2
         /\ EntryAt(pl).at = EntryAt(pl).from + 1
    /\ poolStats.errors = 1 /\ poolStats.writeOps = 2


\* the chunks of worker w's partition: [from, to) with from a multiple of
\* batchSize past startIdx(w) and to = min(from + batchSize, endIdx(w))
ChunksOf(w) ==
    {<<from, Min(from + batchSize, endIdx(w))>> :
       from \in {x \in startIdx(w) .. (endIdx(w) - 1) :
                   (x - startIdx(w)) % batchSize = 0}}

\* the places of opLog where worker w handed chunk c to writeBatch
BatchesOf(w, c) ==
    {pl \in LogPlaces : /\ pl[1] = w
                        /\ EntryAt(pl).op = "batch"
                        /\ EntryAt(pl).from = c[1] /\ EntryAt(pl).to = c[2]}

\* C11 as claimed: whenever batchSize > 1 and readRatio < 1.0 every write is
\* staged into the batch of its chunk, each chunk is committed exactly once, and
\* no write is issued as a single-record write.
C11_BatchLoopNeverWritesSingly ==
    (harness = "perf" /\ UsesBatchLoop) =>
      /\ \A pl \in LogPlaces : EntryAt(pl).op # "write"
      /\ poolPc = "returned" =>
           \A w \in Workers : \A c \in ChunksOf(w) :
             Cardinality(BatchesOf(w, c)) = 1

\* C11 as amended: with batchSize > 1 and readRatio = 0 every operation of a
\* worker is a writeBatch of one chunk of its partition, no chunk is handed to
\* writeBatch twice, and when Run has returned every chunk was handed to it
\* exactly once; with batchSize > 1 and 0 < readRatio < 1.0 no batch is used at
\* all: index j is read when j % 100 < 100 * readRatio and is otherwise written
\* by a single-record write.
C11_BatchesOnlyWithoutReads ==
    (harness = "perf" /\ UsesBatchLoop) =>
      IF readRatio = 0
        THEN /\ \A pl \in LogPlaces :
                  /\ EntryAt(pl).op = "batch"
                  /\ <<EntryAt(pl).from, EntryAt(pl).to>> \in ChunksOf(pl[1])
             /\ \A w \in Workers : \A c \in ChunksOf(w) :
                  /\ Cardinality(BatchesOf(w, c)) <= 1
                  /\ poolPc = "returned" => Cardinality(BatchesOf(w, c)) = 1
        ELSE \A pl \in LogPlaces :
               /\ EntryAt(pl).to = EntryAt(pl).from + 1
               /\ EntryAt(pl).op = (IF IsRead(EntryAt(pl).from) THEN "read"
                                                               ELSE "write")

\* a finished batch run in which one worker committed a full chunk and then the
\* shorter chunk that ends its partition
C11_Witness ==
    /\ harness = "perf" /\ UsesBatchLoop /\ readRatio = 0
    /\ poolPc = "returned"
    /\ numOperations = 3 /\ numWorkers = 1 /\ batchSize = 2
    /\ Len(opLog[0]) = 2
    /\ opLog[0][1].res = "ok" /\ opLog[0][2].res = "ok"


\* the indices whose operation was attempted: the index of a single read or
\* write, every index of a chunk that reached batch.Commit, and the indices of
\* a chunk up to the record whose batch.Set failed
Attempted ==
    {idx \in 0 .. MaxOps :
       \E pl \in Taking(idx) :
         \/ EntryAt(pl).op \in {"read", "write"}
         \/ EntryAt(pl).res \in {"ok", "commit"}
         \/ EntryAt(pl).res = "stage" /\ idx <= EntryAt(pl).at}

\* the indices a failed batch.Set cut off: the records of its chunk after it
CutOff ==
    {idx \in 0 .. MaxOps :
       \E pl \in Taking(idx) : EntryAt(pl).res = "stage" /\ idx > EntryAt(pl).at}

\* C14 as claimed: whatever fails, when Run has returned the operation of every
\* index of every partition was attempted, W * floor(N / W) operations in all.
C14_EveryIndexAttempted ==
    (harness = "perf" /\ poolPc = "returned") =>
      /\ Attempted = 0 .. (numWorkers * opsPerWorker - 1)
      /\ Cardinality(Attempted) = numWorkers * opsPerWorker

\* C14 as amended: a failed read, write or chunk never ends a worker's loop:
\* when Run has returned every index of every partition was taken by an
\* operation of its worker, and its operation was attempted unless it lies in a
\* chunk after the record whose batch.Set failed; so W * floor(N / W) operations
\* were attempted except for the records such failures cut off.
C14_FailuresOnlyCutTheirChunk ==
    (harness = "perf" /\ poolPc = "returned") =>
      /\ \A idx \in 0 .. (numWorkers * opsPerWorker - 1) : Taking(idx) # {}
      /\ Attempted \cup CutOff = 0 .. (numWorkers * opsPerWorker - 1)
      /\ Attempted \cap CutOff = {}
      /\ Cardinality(Attempted) = numWorkers * opsPerWorker - Cardinality(CutOff)
      /\ ~(UsesBatchLoop /\ readRatio = 0) => CutOff = {}

\* a finished batch run of two workers: the first record of worker 0's chunk
\* failed in batch.Set, which cut off the chunk's second record, and worker 1
\* committed its chunk all the same
C14_Witness ==
    /\ harness = "perf" /\ poolPc = "returned"
    /\ numOperations = 4 /\ numWorkers = 2 /\ batchSize = 2 /\ readRatio = 0
    /\ opLog[0][1].res = "stage" /\ opLog[0][1].at = 0
    /\ opLog[1][1].res = "ok"
    /\ CutOff = {1} /\ Attempted = {0, 2, 3}

(***************************************************************************)
(* Properties of the subtests of TestPebbleIndividualWrites.               *)
(***************************************************************************)
\* worker w issues a read in this step
IssuesRead(w) ==
    /\ Len(opLog'[w]) = Len(opLog[w]) + 1
    /\ opLog'[w][Len(opLog'[w])].op = "read"

\* the index of the read worker w issues in this step
ReadIdx(w) == opLog'[w][Len(opLog'[w])].from

\* C12: in a mixed run, at the moment a worker issues a read for index j, j has
\* already been written to the store, by the preload or by a completed earlier
\* write of the run.
C12_MixedReadsOnlyWrittenKeys ==
    [][\A w \in Workers :
         (testType = "mixed" /\ IssuesRead(w)) =>
           generateKeyValue(ReadIdx(w)).key \in DOMAIN poolDb]_vars


\* the result of the read worker w issues in this step
ReadRes(w) == opLog'[w][Len(opLog'[w])].res

\* C15: a read that finds its key adds one to readOps and leaves errors alone;
\* a read whose key is not found changes no counter; a read that fails
\* otherwise adds one to errors and leaves readOps alone; no read changes
\* writeOps or the contents of the store.
C15_ReadCounterChanges ==
    [][\A w \in Workers :
         IssuesRead(w) =>
           /\ poolDb' = poolDb
           /\ poolStats'.writeOps = poolStats.writeOps
           /\ ReadRes(w) \in {"ok", "notfound", "err"}
           /\ ReadRes(w) = "ok" =>
                /\ generateKeyValue(ReadIdx(w)).key \in DOMAIN poolDb
                /\ poolStats'.readOps = poolStats.readOps + 1
                /\ poolStats'.errors = poolStats.errors
           /\ ReadRes(w) = "notfound" =>
                /\ generateKeyValue(ReadIdx(w)).key \notin DOMAIN poolDb
                /\ poolStats' = poolStats
           /\ ReadRes(w) = "err" =>
                /\ poolStats'.errors = poolStats.errors + 1
                /\ poolStats'.readOps = poolStats.readOps]_vars

\* a read-only run over one preloaded key in which the first read found its
\* key, the second did not and the third failed
C15_Witness ==
    /\ harness = "ind" /\ testType = "read" /\ preloadCount = 1
    /\ Len(opLog[0]) = 3
    /\ opLog[0][1].res = "ok" /\ opLog[0][2].res = "notfound"
    /\ opLog[0][3].res = "err"
    /\ poolStats = [readOps |-> 1, writeOps |-> 0, errors |-> 1]


(***************************************************************************)
(* Properties of both worker-pool harnesses.                               *)
(***************************************************************************)
\* the records written with success: one for each single write that returned
\* nil, and one for each index of each committed chunk
WrittenRecords ==
    {r \in LogPlaces \X (0 .. MaxOps) :
       /\ EntryAt(r[1]).op \in {"write", "batch"}
       /\ EntryAt(r[1]).res = "ok"
       /\ EntryAt(r[1]).from <= r[2] /\ r[2] < EntryAt(r[1]).to}

\* the reads that found their key
FoundReads ==
    {pl \in LogPlaces : EntryAt(pl).op = "read" /\ EntryAt(pl).res = "ok"}

\* the operations that failed: not-found is no failure
FailedOps == {pl \in LogPlaces : EntryAt(pl).res \notin {"ok", "notfound"}}

\* C16: in every interleaving of the workers no increment is lost: writeOps is
\* the number of records written with success (the records of committed chunks
\* in batch mode), readOps the number of reads that found their key and errors
\* the number of failed operations, at every moment and so when Run returns.
C16_CountersMatchOperations ==
    /\ poolStats.writeOps = Cardinality(WrittenRecords)
    /\ poolStats.readOps = Cardinality(FoundReads)
    /\ poolStats.errors = Cardinality(FailedOps)

\* a finished mixed run in which both workers wrote with success, a read found
\* its key and an operation failed
C16_Witness ==
    /\ poolPc = "returned" /\ testType = "mixed" /\ numWorkers = 2
    /\ \A w \in Workers :
         \E k \in 1 .. Len(opLog[w]) :
           opLog[w][k].op = "write" /\ opLog[w][k].res = "ok"
    /\ poolStats.writeOps = 2
    /\ poolStats.readOps >= 1
    /\ poolStats.errors >= 1


\* C18: a run entry point returns only when it has started all W workers and
\* every one of them has finished its whole partition, and once it has
\* returned no worker issues an operation, changes a counter or changes the
\* store.
C18_RunJoinsAllWorkers ==
    /\ [](poolPc = "returned" =>
            /\ spawnW = numWorkers
            /\ poolWg = 0
            /\ \A w \in Workers : wk[w].pc = "done" /\ wk[w].i >= endIdx(w))
    /\ [][poolPc = "returned" =>
            /\ opLog' = opLog
            /\ poolStats' = poolStats
            /\ poolDb' = poolDb
            /\ wk' = wk]_vars

\* a run of two workers of two operations each has returned and the subtest
\* has gone on to its end
C18_Witness ==
    /\ poolPc = "returned" /\ poolTestPc = "end"
    /\ numWorkers = 2
    /\ \A w \in Workers : wk[w].pc = "done" /\ Len(opLog[w]) = 2


\* C19: on every exit path of a subtest the store handle and the temporary
\* directory are released: when the constructor failed there is no handle and
\* the directory was removed or never created; when the subtest has ended
\* after a successful construction (the run returned, or the preload failed)
\* the handle is closed and the directory removed; the subtest stops nowhere
\* else, and while the handle is open the directory exists.
C19_ReleasedOnEveryExit ==
    /\ poolTestPc = "failed" =>
         poolHandle = "none" /\ tempDir \in {"none", "removed"}
    /\ poolTestPc = "end" => poolHandle = "closed" /\ tempDir = "removed"
    /\ poolHandle = "open" => tempDir = "exists"
    /\ ~(ENABLED NextTest) => poolTestPc \in {"failed", "end"}

\* a subtest whose preload failed at its second record has ended: the run was
\* never started, the handle is closed and the directory removed
C19_Witness ==
    /\ harness = "ind" /\ poolTestPc = "end"
    /\ preloadCount = 2 /\ preloadI = 1
    /\ poolPc = "none"
    /\ poolHandle = "closed" /\ tempDir = "removed"


\* C20: when a write-only run (readRatio 0, batchSize 1) on an empty store has
\* returned, none of its operations has failed and the worker count divides the
\* operation count, then writeOps = N, readOps = 0 and errors = 0, and the
\* store holds the records of the indices 0 .. N - 1.
C20_CleanWriteOnlyRunWritesAll ==
    ( /\ poolPc = "returned"
      /\ testType \in {"none", "write"}
      /\ readRatio = 0 /\ batchSize = 1
      /\ FailedOps = {}
      /\ numOperations % numWorkers = 0 )
      => /\ poolStats = [readOps |-> 0, writeOps |-> numOperations, errors |-> 0]
         /\ DOMAIN poolDb =
              {generateKeyValue(idx).key : idx \in 0 .. (numOperations - 1)}

\* a PebblePerformanceTest run of 4 writes over 2 workers has returned with
\* writeOps = 4
C20_Witness ==
    /\ harness = "perf" /\ poolPc = "returned"
    /\ readRatio = 0 /\ batchSize = 1
    /\ numOperations = 4 /\ numWorkers = 2
    /\ FailedOps = {}
    /\ poolStats = [readOps |-> 0, writeOps |-> 4, errors |-> 0]


NoCounts == [readOps |-> 0, writeOps |-> 0, errors |-> 0]

\* C21: preloadData changes no counter (until the run entry point is called
\* all counters are zero), and when a read-only run has returned whose preload
\* covered every index below W * floor(N / W) and none of whose operations
\* failed, readOps = W * floor(N / W), errors = 0 and writeOps = 0.
C21_PreloadedReadRunFindsAll ==
    /\ poolPc = "none" => poolStats = NoCounts
    /\ ( /\ testType = "read" /\ poolPc = "returned"
         /\ preloadCount >= numWorkers * opsPerWorker
         /\ FailedOps = {} )
         => poolStats = [readOps  |-> numWorkers * opsPerWorker,
                         writeOps |-> 0,
                         errors   |-> 0]

\* a read-only run of 3 operations over 2 workers after a preload of the
\* indices 0 and 1 has returned with readOps = 2
C21_Witness ==
    /\ testType = "read" /\ poolPc = "returned"
    /\ numOperations = 3 /\ numWorkers = 2 /\ preloadCount = 2
    /\ FailedOps = {}
    /\ poolStats = [readOps |-> 2, writeOps |-> 0, errors |-> 0]


\* the reader of idx leaves its poll loop in this step having found its key
FoundNow(idx) == rd[idx].pc = "loop" /\ rd'[idx].pc = "done" /\ rd'[idx].found

\* the indices whose db.Set has returned nil
SetDone == {i \in 0 .. (writeCount - 1) : i < runI \/ (i = runI /\ runPc = "spawn")}

\* C23: the successful read that produces the latency of index idx reads
\* exactly the key the writer wrote for idx, and the store returns for it the
\* value of the one write of that key: every key is written by one db.Set only
\* (the keys of distinct indices differ and a stored value is never replaced),
\* and at the read the key is bound to the value generated for idx.
C23_ReadReturnsTheWrittenValue ==
    /\ [](harness = "vis" =>
            /\ \A i, j \in 0 .. (writeCount - 1) :
                 i # j => generateKey(i) # generateKey(j)
            /\ DOMAIN db \subseteq {generateKey(i) : i \in SetDone}
            /\ DOMAIN dbPending \subseteq {generateKey(i) : i \in SetDone})
    /\ [][ /\ \A k \in DOMAIN db : k \in DOMAIN db' /\ db'[k] = db[k]
           /\ \A k \in DOMAIN dbPending :
                k \in DOMAIN dbPending' /\ dbPending'[k] = dbPending[k]
           /\ \A idx \in DOMAIN rd :
                FoundNow(idx) =>
                  /\ readerKey(idx) = generateKey(idx)
                  /\ idx \in SetDone
                  /\ readerKey(idx) \in DOMAIN db
                  /\ db[readerKey(idx)] = generateValue(idx, writeTimes[idx]) ]_vars

\* both writes were made, at different clock readings, and the reader of index 0
\* found its key, still bound to the value of its own write, after the write of
\* index 1
C23_Witness ==
    /\ harness = "vis" /\ writeCount = 2 /\ runI = 2
    /\ rd[0].pc = "done" /\ rd[0].found
    /\ generateKey(1) \in DOMAIN db
    /\ db[generateKey(0)] = generateValue(0, writeTimes[0])
    /\ db[generateKey(1)] = generateValue(1, writeTimes[1])
    /\ slotWrites[0] = <<0>>

\* worker w ends a single-record write in this step
WritesNow(w) ==
    /\ Len(opLog'[w]) = Len(opLog[w]) + 1
    /\ opLog'[w][Len(opLog'[w])].op = "write"

\* the entry of the operation worker w ends in this step
EndedNow(w) == opLog'[w][Len(opLog'[w])]

\* C28: a single-record write changes exactly one counter by exactly one,
\* writeOps if the store accepted the write and errors if it failed, and leaves
\* the other two counters as they were; a failed write is not retried: the
\* worker goes on to the next index and no index has two writes in its log.
C28_WriteChangesOneCounter ==
    /\ [][ \A w \in DOMAIN opLog :
             WritesNow(w) =>
               /\ EndedNow(w).res \in {"ok", "err"}
               /\ EndedNow(w).res = "ok" =>
                    poolStats' = [poolStats EXCEPT !.writeOps = @ + 1]
               /\ EndedNow(w).res = "err" =>
                    poolStats' = [poolStats EXCEPT !.errors = @ + 1]
               /\ EndedNow(w).from = wk[w].i
               /\ wk'[w].i = wk[w].i + 1 ]_vars
    /\ [](\A w \in DOMAIN opLog :
            \A a, b \in DOMAIN opLog[w] :
              (opLog[w][a].op = "write" /\ opLog[w][b].op = "write"
                 /\ opLog[w][a].from = opLog[w][b].from) => a = b)

\* one worker's write of index 0 failed and its write of index 1 succeeded:
\* errors and writeOps are both 1
C28_Witness ==
    /\ harness = "perf" /\ numWorkers = 1
    /\ Len(opLog[0]) = 2
    /\ opLog[0][1] = LogEntry("write", 0, 1, "err", 0)
    /\ opLog[0][2] = LogEntry("write", 1, 2, "ok", 1)
    /\ poolStats = [readOps |-> 0, writeOps |-> 1, errors |-> 1]

\* the chunks worker w has handed to writeBatch so far, in order
ChunkLog(w) == [k \in DOMAIN opLog[w] |-> <<opLog[w][k].from, opLog[w][k].to>>]

\* the indices of chunk c
ChunkIndices(c) == c[1] .. (c[2] - 1)

\* C29: in a pure-write batch run (batchSize > 1, readRatio = 0) the chunks of a
\* worker start at startIdx and follow one another at a distance of batchSize,
\* each ending batchSize later or, clipped, at endIdx: they are non-empty,
\* disjoint, lie within the worker's own partition and, once the run has
\* returned, cover it exactly; and when no batch has failed the final writeOps
\* is numWorkers * (numOperations / numWorkers).
C29_ChunksTileThePartition ==
    (harness = "perf" /\ batchSize > 1 /\ readRatio = 0 /\ wk # <<>>) =>
      /\ \A w \in DOMAIN opLog :
           LET lo == w * (numOperations \div numWorkers)
               hi == (w + 1) * (numOperations \div numWorkers)
               cs == ChunkLog(w)
           IN /\ \A k \in DOMAIN cs :
                   /\ opLog[w][k].op = "batch"
                   /\ cs[k][1] = lo + (k - 1) * batchSize
                   /\ cs[k][1] < cs[k][2]
                   /\ cs[k][2] = IF cs[k][1] + batchSize <= hi
                                   THEN cs[k][1] + batchSize ELSE hi
                   /\ lo <= cs[k][1] /\ cs[k][2] <= hi
                   /\ \A j \in DOMAIN cs :
                        j # k => ChunkIndices(cs[j]) \cap ChunkIndices(cs[k]) = {}
              /\ poolPc = "returned" =>
                   UNION {ChunkIndices(cs[k]) : k \in DOMAIN cs} = lo .. (hi - 1)
      /\ \A v, w \in DOMAIN opLog :
           v # w => \A j \in DOMAIN opLog[v] : \A k \in DOMAIN opLog[w] :
                      ChunkIndices(ChunkLog(v)[j]) \cap ChunkIndices(ChunkLog(w)[k]) = {}
      /\ (poolPc = "returned" /\ FailedOps = {}) =>
           poolStats.writeOps = numWorkers * (numOperations \div numWorkers)

\* one worker's partition of three indices was written in the chunks [0, 2) and
\* [2, 3), the second clipped, and both commits succeeded
C29_Witness ==
    /\ harness = "perf" /\ batchSize = 2 /\ readRatio = 0
    /\ numWorkers = 1 /\ numOperations = 3
    /\ poolPc = "returned"
    /\ ChunkLog(0) = <<<<0, 2>>, <<2, 3>>>>
    /\ FailedOps = {}
    /\ poolStats.writeOps = 3

\* the loops whose operations address the loop index itself: the worker of
\* PebblePerformanceTest, writeWorker and readWorker
IndexLoops == harness = "perf" \/ (harness = "ind" /\ testType \in {"write", "read"})

\* the partition of worker w: w * (N / W) up to, not including, (w + 1) * (N / W)
Partition(w) ==
    (w * (numOperations \div numWorkers))
      .. ((w + 1) * (numOperations \div numWorkers) - 1)

\* the indices the logged operations of worker w have addressed
Touched(w) == UNION {opLog[w][k].from .. (opLog[w][k].to - 1) : k \in DOMAIN opLog[w]}

\* C30: in the write-only and read-only loops and in the loops of the
\* performance test, a worker issues its operations one at a time (each step
\* ends one operation of one worker, the one at the worker's loop index, and
\* moves the index past it), in strictly increasing index order and within its
\* own partition; the partitions of two workers are disjoint, so no index is
\* operated on by two workers.
C30_OrderedDisjointPartitions ==
    /\ [](IndexLoops =>
            /\ \A w \in DOMAIN opLog :
                 /\ Touched(w) \subseteq Partition(w)
                 /\ \A k \in DOMAIN opLog[w] :
                      /\ opLog[w][k].from < opLog[w][k].to
                      /\ k > 1 => /\ opLog[w][k - 1].from < opLog[w][k].from
                                  /\ opLog[w][k - 1].to <= opLog[w][k].from
            /\ \A v, w \in DOMAIN opLog :
                 v # w => /\ Partition(v) \cap Partition(w) = {}
                          /\ Touched(v) \cap Touched(w) = {})
    /\ [][IndexLoops =>
            \A w \in DOMAIN opLog :
              opLog'[w] # opLog[w] =>
                /\ opLog'[w] = Append(opLog[w], EndedNow(w))
                /\ EndedNow(w).from = wk[w].i
                /\ wk'[w].i >= EndedNow(w).to
                /\ \A v \in DOMAIN opLog : v # w => opLog'[v] = opLog[v] ]_vars

\* two write-only workers have each written their two indices in order:
\* worker 0 the indices 0 and 1, worker 1 the indices 2 and 3
C30_Witness ==
    /\ harness = "ind" /\ testType = "write"
    /\ numWorkers = 2 /\ numOperations = 4
    /\ [k \in DOMAIN opLog[0] |-> opLog[0][k].from] = <<0, 1>>
    /\ [k \in DOMAIN opLog[1] |-> opLog[1][k].from] = <<2, 3>>

\* the keys db.Set has accepted, readable or not yet
Accepted == (DOMAIN db) \cup (DOMAIN dbPending)

\* C31: the writer is sequential and each reader follows its write: while the
\* write of index runI is in flight every earlier write has returned nil
\* (writeOps = runI, their keys are accepted), and a reader of index idx is
\* spawned, and so issues a Get, only after the write of idx has returned nil;
\* a write is issued only while no write has failed.
C31_WriterSequentialReadersFollow ==
    /\ [](harness = "vis" =>
            /\ runPc = "set" =>
                 /\ stats.writeOps = runI
                 /\ \A j \in 0 .. (runI - 1) : generateKey(j) \in Accepted
                 /\ generateKey(runI) \notin Accepted
            /\ \A idx \in Spawned :
                 /\ generateKey(idx) \in Accepted
                 /\ stats.writeOps >= idx + 1
            /\ \A idx \in DOMAIN rd : GetCalls(idx) > 0 => idx \in Spawned)
    /\ [][(harness = "vis" /\ runPc # "set" /\ runPc' = "set") =>
            /\ runErr = "none"
            /\ stats.writeOps = runI
            /\ Spawned = 0 .. (runI - 1) ]_vars

\* the write of index 1 is in flight after the write of index 0 returned nil,
\* and the reader of index 0 has issued a Get
C31_Witness ==
    /\ harness = "vis" /\ writeCount = 2
    /\ runPc = "set" /\ runI = 1
    /\ stats.writeOps = 1
    /\ 0 \in Spawned /\ GetCalls(0) > 0
    /\ 1 \notin Spawned

\* the number of unsuccessful db.Get calls reader idx has issued
FailedGets(idx) == rd[idx].i

\* C32: a reader issues at most readAttempts Get calls and none after its first
\* successful one (a reader that has found its key is done, and a step of a
\* finished reader changes nothing of it); it has slept once for each
\* unsuccessful Get and never after the successful one; with readAttempts = 0
\* it issues no Get and records a miss.
C32_ReaderBudgetAndSleeps ==
    /\ [](harness = "vis" =>
            \A idx \in Spawned :
              /\ GetCalls(idx) <= readAttempts
              /\ rd[idx].found => rd[idx].pc = "done"
              /\ rd[idx].slept = FailedGets(idx)
              /\ readAttempts = 0 =>
                   /\ GetCalls(idx) = 0
                   /\ rd[idx].pc = "done" =>
                        /\ Slot(idx) = MissSentinel
                        /\ ~rd[idx].found)
    /\ [][harness = "vis" =>
            \A idx \in DOMAIN rd :
              /\ rd[idx].pc = "done" => rd'[idx] = rd[idx]
              /\ (idx \in DOMAIN rd' /\ rd'[idx].slept # rd[idx].slept) =>
                   /\ rd'[idx].slept = rd[idx].slept + 1
                   /\ rd'[idx].i = rd[idx].i + 1
                   /\ ~rd'[idx].found ]_vars

\* a reader found its key at its second Get, after one unsuccessful Get and one
\* sleep
C32_Witness ==
    /\ harness = "vis" /\ readAttempts = 2
    /\ \E idx \in Finished :
         /\ rd[idx].found /\ GetCalls(idx) = 2
         /\ rd[idx].slept = 1

\* index idx falls below the read ratio: (idx mod 100) / 100 < readRatio, with
\* readRatio in hundredths
BelowRatio(idx) == (idx % 100) < readRatio

\* the indices the run has read, and those it has written singly or in a batch
ReadIndices == {EntryAt(pl).from : pl \in {q \in LogPlaces : EntryAt(q).op = "read"}}
WriteIndices ==
    UNION {EntryAt(pl).from .. (EntryAt(pl).to - 1) :
             pl \in {q \in LogPlaces : EntryAt(q).op \in {"write", "batch"}}}

\* C33: in PebblePerformanceTest an index is read exactly when (i mod 100)/100 <
\* readRatio and written otherwise, whatever the worker count, the batch size
\* and the interleaving: every read is at an index below the ratio, every write
\* at one that is not, and a run that has returned has read exactly the indices
\* of its partitions that are below the ratio.  So every block of 100
\* consecutive indices has as many reads as there are k in 0..99 with
\* k/100 < readRatio: 0 at ratio 0, 50 at 0.5, 100 at 1.0.
C33_DecisionIsFunctionOfIndex ==
    harness = "perf" =>
      /\ \A idx \in ReadIndices : BelowRatio(idx)
      /\ \A idx \in WriteIndices : ~BelowRatio(idx)
      /\ poolPc = "returned" =>
           /\ ReadIndices = {idx \in 0 .. (numWorkers * opsPerWorker - 1) :
                               BelowRatio(idx)}
           /\ WriteIndices = {idx \in 0 .. (numWorkers * opsPerWorker - 1) :
                                ~BelowRatio(idx)}
      /\ (poolPc = "spawn" /\ spawnW = 0) =>
           /\ \A b \in 0 .. MaxBlockStart :
                Cardinality({idx \in b .. (b + 99) : IsRead(idx)})
                  = Cardinality({k \in 0 .. 99 : k < readRatio})
           /\ readRatio = 0 => Cardinality({idx \in 0 .. 99 : IsRead(idx)}) = 0
           /\ readRatio = 50 => Cardinality({idx \in 0 .. 99 : IsRead(idx)}) = 50
           /\ readRatio = 100 => Cardinality({idx \in 0 .. 99 : IsRead(idx)}) = 100

\* a run of two workers at ratio 0.01 has returned: index 0 was read and the
\* indices 1, 2 and 3 were written
C33_Witness ==
    /\ harness = "perf" /\ readRatio = 1 /\ numWorkers = 2 /\ numOperations = 4
    /\ poolPc = "returned"
    /\ ReadIndices = {0}
    /\ WriteIndices = {1, 2, 3}

\* C34 as claimed: the remapped read index of mixedWorker lies within the
\* worker's own partition, [startIdx, endIdx), for every i of the partition.
C34_MixedReadInOwnPartition ==
    [][\A w \in Workers :
         (testType = "mixed" /\ IssuesRead(w)) => ReadIdx(w) \in Partition(w)]_vars

\* C34: the remapped read index of mixedWorker, i % (startIdx + 1), lies in
\* 0 .. startIdx; it is an index of the worker's own partition only for worker
\* 0, whose reads all go to index 0, and in the pass i = startIdx, where it is
\* startIdx itself; every other read addresses an index below the partition.
C34_MixedReadAtOrBelowStart ==
    [][\A w \in Workers :
         (testType = "mixed" /\ IssuesRead(w)) =>
           LET s == w * (numOperations \div numWorkers)
           IN /\ ReadIdx(w) \in 0 .. s
              /\ w = 0 => ReadIdx(w) = 0
              /\ wk[w].i = s => ReadIdx(w) = s
              /\ ReadIdx(w) \in Partition(w) <=> (w = 0 \/ wk[w].i = s)]_vars

\* worker 1 of a mixed run over four indices (partition 2 .. 3) has read index
\* 0 in its second pass
C34_Witness ==
    /\ harness = "ind" /\ testType = "mixed"
    /\ numWorkers = 2 /\ numOperations = 4
    /\ Len(opLog[1]) = 2
    /\ opLog[1][2].op = "read" /\ opLog[1][2].from = 0

\* C36: in a PebblePerformanceTest run, which starts on an empty store, no read
\* finds its key, whatever the readRatio, the batch size and the interleaving:
\* no index is both read and written, the keys of distinct indices differ, so
\* the key of a read is never in the store, no read ends with success and
\* readOps stays 0 for the whole run.
C36_PerfReadsNeverFind ==
    harness = "perf" =>
      /\ ReadIndices \cap WriteIndices = {}
      /\ (poolPc = "spawn" /\ spawnW = 0) =>
           \A i, j \in 0 .. MaxOps :
             i # j => generateKeyValue(i).key # generateKeyValue(j).key
      /\ \A idx \in ReadIndices : generateKeyValue(idx).key \notin DOMAIN poolDb
      /\ \A pl \in LogPlaces : EntryAt(pl).op = "read" => EntryAt(pl).res # "ok"
      /\ poolStats.readOps = 0

\* a mixed run has returned: its read of index 0 did not find the key, the
\* three writes succeeded, and readOps is 0
C36_Witness ==
    /\ harness = "perf" /\ poolPc = "returned" /\ numOperations = 4
    /\ readRatio = 1
    /\ ReadIndices = {0} /\ WriteIndices = {1, 2, 3}
    /\ \A pl \in LogPlaces : EntryAt(pl).op = "read" => EntryAt(pl).res = "notfound"
    /\ poolStats = [readOps |-> 0, writeOps |-> 3, errors |-> 0]

\* C37: no task uses the store after it was closed: once Cleanup has closed the
\* store of a visibility test, no reader issues another db.Get (no reader's
\* count of Get calls grows and none dies in a Get on the closed handle), also
\* in an execution where Run returned a write error.
C37_NoUseAfterClose ==
    [][(harness = "vis" /\ dbClosed) =>
         /\ crashed' = crashed
         /\ \A idx \in DOMAIN rd :
              /\ rd'[idx].i = rd[idx].i
              /\ rd'[idx].found = rd[idx].found]_vars

\* the slots AnalyzeResults would count as successful reads: those >= 0
CountedAsSuccess == {idx \in DOMAIN stats.readLatencies : Slot(idx) >= 0}

\* C38: a latency slot holds 0, which counts as a success, until its reader
\* stores into it; whenever AnalyzeResults is reached every slot of
\* 0 .. writeCount - 1 has been stored into by its own reader, once, so the
\* number of slots counted as successes is the number of readers that found
\* their key, which is readOps.
C38_SuccessCountIsReadOps ==
    harness = "vis" =>
      /\ \A idx \in DOMAIN slotWrites :
           slotWrites[idx] = <<>> => (Slot(idx) = 0 /\ idx \in CountedAsSuccess)
      /\ testPc = "analyze" =>
           /\ runErr = "nil"
           /\ DOMAIN stats.readLatencies = 0 .. (writeCount - 1)
           /\ \A idx \in 0 .. (writeCount - 1) : slotWrites[idx] = <<idx>>
           /\ CountedAsSuccess = {idx \in DOMAIN rd : rd[idx].found}
           /\ Cardinality(CountedAsSuccess) = stats.readOps

\* AnalyzeResults is reached after a run of two writes in which one reader found
\* its key and the other did not: one slot counts as a success and readOps is 1
C38_Witness ==
    /\ harness = "vis" /\ testPc = "analyze" /\ writeCount = 2
    /\ Cardinality(CountedAsSuccess) = 1
    /\ stats.readOps = 1 /\ stats.readMisses = 1
    /\ \E idx \in DOMAIN rd : Slot(idx) = MissSentinel

(***************************************************************************)
(* Properties of generateKeyValue.                                         *)
(***************************************************************************)
\* the decimal representation of idx has at most codecKeySize digits
FitsKey(idx) == Len(Decimal(idx)) <= codecKeySize

\* C22: generateKeyValue is deterministic and, over the indices whose decimal
\* representation has at most keySize digits, injective on keys: the same index
\* yields the same key and value, two distinct such indices never yield the
\* same key, and the key has keySize bytes and the value valueSize bytes.
C22_CodecInjectiveInRange ==
    codecOut # <<>> =>
      /\ codecIdx[1] = codecIdx[2] => codecOut[1] = codecOut[2]
      /\ (FitsKey(codecIdx[1]) /\ FitsKey(codecIdx[2])
            /\ codecIdx[1] # codecIdx[2])
           => codecOut[1].key # codecOut[2].key
      /\ \A k \in 1 .. 2 : /\ Len(codecOut[k].key) = codecKeySize
                           /\ Len(codecOut[k].value) = codecValueSize

\* with keySize 2 the indices 1 and 10 were encoded, to the keys "01" and "10"
C22_Witness ==
    /\ codecKeySize = 2 /\ codecIdx = <<1, 10>>
    /\ codecOut # <<>>
    /\ codecOut[1].key = <<"0", "1">> /\ codecOut[2].key = <<"1", "0">>


(***************************************************************************)
(* Properties of scanHandler.                                              *)
(***************************************************************************)
\* strings.HasPrefix(key, prefix)
HasPrefix(key, prefix) ==
    Len(key) >= Len(prefix) /\ SubSeq(key, 1, Len(prefix)) = prefix

\* the records of the store whose key starts with prefix
Prefixed(prefix) ==
    [k \in {j \in DOMAIN scanStore : HasPrefix(j, prefix)} |-> scanStore[k]]

\* C24: a completed GET /scan returns exactly the records of the store whose key
\* starts with the prefix, whatever the store holds and whatever the prefix is;
\* without a prefix it returns every record.
C24_ScanReturnsExactlyThePrefixed ==
    scanPc = "done" => scanResults = Prefixed(scanPrefix)

\* C25: a scan with prefix "test" over a store whose keys are exactly test1,
\* test2 and other1 returns exactly the records of test1 and test2.
C25_ScanTestScenario ==
    ( /\ scanPc = "done"
      /\ scanPrefix = <<"t", "e", "s", "t">>
      /\ DOMAIN scanStore = {Test1, Test2, Other1} )
      => /\ DOMAIN scanResults = {Test1, Test2}
         /\ scanResults[Test1] = scanStore[Test1]
         /\ scanResults[Test2] = scanStore[Test2]

\* the scenario's scan has completed and returned the two records
C25_Witness ==
    /\ scanPc = "done"
    /\ scanPrefix = <<"t", "e", "s", "t">>
    /\ DOMAIN scanStore = {Test1, Test2, Other1}
    /\ scanStore[Test1] = "x" /\ scanStore[Test2] = "y"
    /\ DOMAIN scanResults = {Test1, Test2}
    /\ scanResults[Test1] = "x" /\ scanResults[Test2] = "y"


(***************************************************************************)
(* Properties of AnalyzeResults.                                           *)
(***************************************************************************)
\* the slots that hold a latency, and those that hold the miss sentinel
NonMiss == {k \in DOMAIN an.readLatencies : an.readLatencies[k] >= 0}
Missed == {k \in DOMAIN an.readLatencies : an.readLatencies[k] = MissSentinel}

\* the bounds of the seven buckets: lower inclusive, upper exclusive; the last
\* bucket has no upper bound
BucketLower == <<0, 1 * Microsecond, 10 * Microsecond, 100 * Microsecond,
                 1 * Millisecond, 10 * Millisecond, 100 * Millisecond>>

\* the slots whose latency lies in bucket number b
InBucket(b) ==
    {k \in NonMiss : /\ BucketLower[b] <= an.readLatencies[k]
                     /\ b < Len(BucketLower) => an.readLatencies[k] < BucketLower[b + 1]}

RECURSIVE SumOver(_, _)
\* the sum of f over the set S of its arguments
SumOver(f, S) ==
    IF S = {} THEN 0
    ELSE LET x == CHOOSE y \in S : TRUE IN f[x] + SumOver(f, S \ {x})

\* C26: when AnalyzeResults has finished with a success, latencyBuckets has
\* seven buckets, every non-miss latency is counted in exactly the bucket whose
\* inclusive lower and exclusive upper bound enclose it (boundaries 1us, 10us,
\* 100us, 1ms, 10ms, 100ms), a miss slot is counted in no bucket, and the bucket
\* counts sum to the success count.
C26_BucketsPartitionSuccesses ==
    (harness = "analyze" /\ an.pc = "done" /\ an.successCount > 0) =>
      /\ Len(BucketNames) = 7
      /\ DOMAIN an.latencyBuckets = {BucketNames[b] : b \in DOMAIN BucketNames}
      /\ Cardinality(DOMAIN an.latencyBuckets) = 7
      /\ \A b \in DOMAIN BucketNames :
           an.latencyBuckets[BucketNames[b]] = Cardinality(InBucket(b))
      /\ \A k \in NonMiss :
           Cardinality({b \in DOMAIN BucketNames : k \in InBucket(b)}) = 1
      /\ SumOver(an.latencyBuckets, DOMAIN an.latencyBuckets) = an.successCount

\* a miss, a latency of exactly 1us and one of exactly 100ms were analyzed: the
\* two latencies are in the buckets 1-10us and 100ms+
C26_Witness ==
    /\ harness = "analyze" /\ an.pc = "done"
    /\ an.readLatencies = <<MissSentinel, Microsecond, 100 * Millisecond>>
    /\ an.latencyBuckets["1-10us"] = 1
    /\ an.latencyBuckets["100ms+"] = 1
    /\ an.latencyBuckets["0-1us"] = 0
    /\ an.latencyBuckets["10-100ms"] = 0

\* C27: once the first loop of AnalyzeResults has ended, the success count is
\* the number of slots >= 0, success count plus the number of -1 slots is
\* writeCount, the latency sum is the sum of the non-miss slots, and when the
\* success count is positive min and max are the smallest and largest non-miss
\* latency and the average, the integer quotient of the sum by the success
\* count, lies between them.
C27_StatisticsOverNonMissSlots ==
    (harness = "analyze" /\ an.pc \in {"second", "done"}) =>
      /\ an.successCount = Cardinality(NonMiss)
      /\ an.successCount + Cardinality(Missed) = an.writeCount
      /\ an.totalLatency = SumOver(an.readLatencies, NonMiss)
      /\ an.successCount > 0 =>
           /\ an.minLatency \in {an.readLatencies[k] : k \in NonMiss}
           /\ an.maxLatency \in {an.readLatencies[k] : k \in NonMiss}
           /\ \A k \in NonMiss : /\ an.minLatency <= an.readLatencies[k]
                                 /\ an.readLatencies[k] <= an.maxLatency
           /\ an.avgLatency = an.totalLatency \div an.successCount
           /\ an.avgLatency * an.successCount <= an.totalLatency
           /\ an.totalLatency < (an.avgLatency + 1) * an.successCount
           /\ an.minLatency <= an.avgLatency
           /\ an.avgLatency <= an.maxLatency

\* a miss and the latencies 0 and 999ns were analyzed: two successes, min 0, max
\* 999, and the average is the quotient 499
C27_Witness ==
    /\ harness = "analyze" /\ an.pc = "done"
    /\ an.readLatencies = <<0, MissSentinel, Microsecond - 1>>
    /\ an.writeCount = 3
    /\ an.successCount = 2
    /\ an.minLatency = 0 /\ an.maxLatency = Microsecond - 1
    /\ an.avgLatency = 499


(***************************************************************************)
(* Properties of insertItemsIndividually.                                  *)
(***************************************************************************)
\* the db.Set calls made so far: goroutine and place in its sequence of calls
SetCalls == {c \in (DOMAIN ins.sets) \X (1 .. MaxItems + 1) : c[2] <= Len(ins.sets[c[1]])}

\* the db.Set calls made for item idx
SetCallsFor(idx) == {c \in SetCalls : ins.sets[c[1]][c[2]].idx = idx}

\* C35: insertItemsIndividually gives the remainder to the last worker: for
\* every numItems >= 0 and numWorkers >= 1, numWorkers > numItems included, no
\* item is written twice and none outside 0 .. numItems - 1, each goroutine
\* writes the items of its own range in order, and when the function has
\* returned every goroutine has finished and every item of 0 .. numItems - 1
\* has been written exactly once, by exactly one goroutine.
C35_EveryItemInsertedOnce ==
    harness = "insert" =>
      /\ \A c \in SetCalls :
           /\ ins.sets[c[1]][c[2]].idx \in 0 .. (ins.numItems - 1)
           /\ Cardinality(SetCallsFor(ins.sets[c[1]][c[2]].idx)) = 1
           /\ ins.sets[c[1]][c[2]].idx
                = c[1] * (ins.numItems \div ins.numWorkers) + c[2] - 1
      /\ ins.pc = "returned" =>
           /\ \A g \in DOMAIN ins.go : ins.go[g].pc = "done"
           /\ \A idx \in 0 .. (ins.numItems - 1) :
                /\ Cardinality(SetCallsFor(idx)) = 1
                /\ Cardinality({c[1] : c \in SetCallsFor(idx)}) = 1
           /\ \A idx \in 0 .. (ins.numItems - 1) :
                (\A c \in SetCallsFor(idx) : ins.sets[c[1]][c[2]].res = "ok")
                  => insertKey(idx) \in DOMAIN ins.db

\* four items and three workers: the workers 0 and 1 wrote one item each and the
\* last worker the items 2 and 3, the remainder included
C35_Witness ==
    /\ harness = "insert" /\ ins.pc = "returned"
    /\ ins.numItems = 4 /\ ins.numWorkers = 3
    /\ [k \in DOMAIN ins.sets[0] |-> ins.sets[0][k].idx] = <<0>>
    /\ [k \in DOMAIN ins.sets[1] |-> ins.sets[1][k].idx] = <<1>>
    /\ [k \in DOMAIN ins.sets[2] |-> ins.sets[2][k].idx] = <<2, 3>>

====
